---- MODULE Spec2Model ----
(***************************************************************************)
(* Stay ambient-sound engine: AudioEngine, its three Scene Players         *)
(* (LoopPlayer, CafePlayer, WindPlayer) and the useStay hook that drives   *)
(* them.                                                                   *)
(*                                                                         *)
(* Granularity.  JavaScript runs each task to completion and drains the    *)
(* microtask queue before the next task.  One action of this model is one  *)
(* task: an API call up to its first await on a promise that a later task  *)
(* resolves (a fetch, a setTimeout, AudioContext.resume), or the task that *)
(* resolves such a promise together with every continuation it wakes.      *)
(* An await on an already settled promise does not end the action.         *)
(*                                                                         *)
(* Time.  Durations are milliseconds.  Pending timeouts and the ends of    *)
(* scheduled gain ramps are kept in one list in creation order; an entry   *)
(* may fire only when no earlier entry with a duration that is not longer  *)
(* is still pending (its deadline cannot be later).  The end of a fade-in  *)
(* ramp runs no code: it is taken to have happened as soon as a timeout    *)
(* fires that was set no earlier and for no shorter a time; until then the *)
(* gain is "mid": somewhere between silence and full, not known where.     *)
(*                                                                         *)
(* Levels.  The master volume and the analysis data are hundredths of the  *)
(* full level.  A ramp of the master gain advances in steps of Tick        *)
(* milliseconds; a render tick runs the frame callbacks of the analysis    *)
(* loops, with whatever bytes the analyser node hands out then.            *)
(***************************************************************************)
EXTENDS Integers, Sequences, FiniteSets, TLC

\* ---- bounds of the model ----
MaxCalls == 3      \* API calls after init()
MaxCtx == 1        \* contexts created by init()
MaxCtxInit == 2    \* contexts created by init() where init() is called again and again
MaxInst == 4       \* Scene Player instances alive at a time
MaxGood == 1       \* assets of a scene that decode
MaxTimers == 4     \* timeouts pending at a time
MaxFrames == 3     \* render ticks
FrequencyBinCount == 3   \* bins of the analyser node
MaxTime == 12000   \* milliseconds a single LoopPlayer is followed for
MaxSources == 4    \* buffer sources of that LoopPlayer that are not yet released
MaxLoopCalls == 4  \* start() / stop() / dispose() calls made on it and on the recording layer
MaxPicks == 4      \* picks the recording layer of a WindPlayer is followed for
MaxFetches == 3    \* fetches a SampleLoader issues
MaxLoads == 4      \* load() / loadAll() calls made on it
MaxSamples == 24   \* samples of a noise buffer that are followed
MaxFlips == 1      \* times the white-noise draws change within those samples
MaxSynthTime == 3000  \* milliseconds a single synthesizer is followed for
MaxSynthCalls == 5    \* calls made on it and on its sample loader

\* ---- program constants (milliseconds) ----
FADE_DURATION == 3000
DefaultFadeIn == 1500
WindRecordingFadeIn == 2000
RainCrossfade == 3000
MinNextDelay == 1000

\* ---- program constants (hundredths) ----
DefaultVolume == 70           \* options.defaultVolume
DefaultSmoothingFactor == 15  \* AudioAnalyzer.smoothingFactor

\* ---- program constants (milliseconds), master volume ----
DefaultRampTime == 100        \* setVolume(value, rampTime = 0.1)
Tick == 50                    \* the step in which the model lets a ramp advance

SceneIds == {"rain", "cafe", "wind"}
NoScene == "null"

\* DEFAULT_SCENES: the kind of player each configured scene gets
DEFAULT_SCENES ==
    [s \in SceneIds |->
        CASE s = "rain" -> "loop"
          [] s = "cafe" -> "cafe"
          [] OTHER -> "wind"]

VARIABLES
    \* AudioEngine fields
    audioContext,    \* 0 = null, else the identity of the context
    masterGain,      \* 0 = null, else the context the node belongs to
    analyzer,        \* 0 = null, else the context it belongs to
    players,         \* scene -> instance id, 0 = no entry
    currentPlayer,   \* instance id, 0 = null
    currentScene,
    isInitialized,
    isPlaying,
    scenes,          \* options.scenes: scene -> kind of configuration
    \* objects and pending tasks
    inst,            \* every Scene Player instance that is still referenced
    timers,          \* pending timeouts and ramp ends, in creation order
    inits,           \* init() calls suspended on audioContext.resume()
    nCtx,            \* number of contexts created so far
    ctxCap,          \* contexts the platform grants before new AudioContext() throws
    defaultVolume,   \* options.defaultVolume
    volume,          \* masterGain.gain: value now, ramp target, ticks the ramp has left
    loops,           \* analysis loops alive (each has one animation frame requested)
    animationFrameId,\* TRUE: the field names a requested frame
    analysis,        \* the AudioAnalyzer's smoothedData and smoothingFactor
    snapshot,        \* the object the last getAudioData() handed out
    \* useStay state
    hookScene,       \* useState currentScene
    hookPlaying,     \* useState isPlaying
    isSwitchingRef,
    \* history
    calls,           \* API calls made so far
    frames,          \* render ticks so far
    updates,         \* analyzer.update() calls made by the task that produced this state
    threw,           \* an exception left play / switchScene / stop / setVolume in that task
    arg,             \* the value passed to the setVolume / setSmoothingFactor call of that
                     \* task, or the instance a player was called on directly
    destroyed,       \* destroy() was called and init() was not called since
    rejected,        \* the lock turned a request away during the transition that took it last
    last,            \* the task that produced this state
    \* one LoopPlayer followed in time
    clock,           \* context.currentTime, milliseconds
    loopPlayer,      \* its fields
    sources,         \* the buffer sources it created, each with its gain node
    pending,         \* its timeouts, in creation order
    loopHist,        \* history: calls made, the last two picks, the task that ran last
    \* the recording layer of one WindPlayer
    windLayer,
    \* one SampleLoader
    sampleBuffers,   \* this.buffers: name -> the fetch that produced the buffer, 0 = absent
    sampleLoading,   \* this.loading: name -> the fetch in flight, 0 = absent
    fetches,         \* fetch -> the name it is for, "" = not in flight
    waiting,         \* load() calls suspended on a fetch
    loaderHist,      \* history: calls and fetches made, what the last task did
    \* one noise buffer being filled
    noise,
    \* one synthesizer followed in time
    synth            \* its fields, its timeouts, the loader's cache, the time, history

engineVars == <<audioContext, masterGain, analyzer, players, currentPlayer,
                currentScene, isInitialized, isPlaying, scenes>>
hookVars == <<hookScene, hookPlaying, isSwitchingRef>>
loopVars == <<clock, loopPlayer, sources, pending, loopHist>>
loaderVars == <<sampleBuffers, sampleLoading, fetches, waiting, loaderHist>>
partVars == <<loopVars, windLayer, loaderVars, noise, synth>>
mainVars == <<audioContext, masterGain, analyzer, players, currentPlayer,
              currentScene, isInitialized, isPlaying, scenes, inst, timers, inits,
              nCtx, hookScene, hookPlaying, isSwitchingRef, calls, destroyed, rejected,
              last, ctxCap, defaultVolume, volume, loops, animationFrameId, analysis,
              snapshot, frames, updates, threw, arg>>
vars == <<mainVars, partVars>>

InstIds == 1..MaxInst

\* a slot that holds no instance
FreeInst ==
    [st |-> "free", scene |-> NoScene, kind |-> "none", ctx |-> 0,
     isLoaded |-> FALSE, amb |-> FALSE, good |-> 0, isPlaying |-> FALSE,
     src |-> FALSE, gain |-> "zero", syn |-> FALSE, disp |-> FALSE,
     w |-> "none", wf |-> 0, wh |-> FALSE]

\* new LoopPlayer / CafePlayer / WindPlayer (constructors), load() not yet settled
NewPlayer(s, kind, ctx, w, wf, wh) ==
    [FreeInst EXCEPT !.st = "loading", !.scene = s, !.kind = kind, !.ctx = ctx,
                     !.w = w, !.wf = wf, !.wh = wh]

\* a pending timeout or ramp end
Entry(p, k, dur) ==
    [p |-> p, k |-> k, dur |-> dur, w |-> FALSE, h |-> FALSE, g |-> FALSE,
     nx |-> FALSE, ref |-> FALSE, tag |-> FALSE]

Last(op, s) == [op |-> op, s |-> s]

\* ---- timers ----

\* variant for C29: stop leaves the timeout the field names pending
clearTimeout_None(T, p) == T

\* clearTimeout(this.nextTimeout / sfxTimer / crossfadeTimer)
clearTimeout(T, p) ==
    SelectSeq(T, LAMBDA e : ~(e.p = p /\ e.k = "next" /\ e.ref))

\* this.xTimer = setTimeout(...): the field now names the new timeout only
setTimeout(T, p) ==
    Append([i \in DOMAIN T |->
               IF T[i].p = p /\ T[i].k = "next" THEN [T[i] EXCEPT !.ref = FALSE]
               ELSE T[i]],
           [Entry(p, "next", MinNextDelay) EXCEPT !.ref = TRUE])

\* a ramp of the instance's gain node is still scheduled
GainPending(T, p) ==
    \E i \in DOMAIN T : T[i].p = p /\ (T[i].k = "ramp" \/ T[i].g)

RemoveAt(T, i) == SubSeq(T, 1, i - 1) \o SubSeq(T, i + 1, Len(T))

\* the lower bound known for an entry's duration
DurOf(e) == IF e.k = "next" THEN MinNextDelay ELSE e.dur

\* entry i may be the next to fire
CanFire(T, i) ==
    /\ T[i].k # "ramp"
    /\ \A j \in 1..(i - 1) : T[j].k \in {"next", "ramp"} \/ T[j].dur > DurOf(T[i])

\* linearRampToValueAtTime(target > 0, now + dur) on the instance's gain node
\* (only the last fade-in scheduled on a node decides where the gain ends)
rampUp(T, p, dur) ==
    Append(SelectSeq(T, LAMBDA e : ~(e.p = p /\ e.k = "ramp")), Entry(p, "ramp", dur))

Timeouts(T) == SelectSeq(T, LAMBDA e : e.k # "ramp")

\* ---- Scene Players: operations on a world W = [I |-> instances, T |-> timers] ----

\* buffers the instance still holds (dispose() drops them)
HasAmbience(r) == r.amb /\ ~r.disp
Buffers(r) == IF r.disp THEN 0 ELSE r.good

\* variant for C8: every kind counts any decoded asset
LoadedFlag_AnyAsset(kind, amb, good) == amb \/ good > 0

\* what load() leaves in isLoaded, from the assets that were fetched and decoded
LoadedFlag(kind, amb, good) ==
    CASE kind = "loop" -> good > 0
      [] kind = "cafe" -> amb
      [] OTHER -> TRUE

\* LoopPlayer._playNext: a new source and gain node, fading in; the next switch is scheduled
LoopPlayNext(W, p, fadeIn) ==
    LET T2 == [i \in DOMAIN W.T |->
                  IF W.T[i].p = p THEN [W.T[i] EXCEPT !.g = FALSE] ELSE W.T[i]]
        T3 == rampUp(T2, p, fadeIn)
    IN  [I |-> [W.I EXCEPT ![p].src = TRUE, ![p].gain = "mid"],
         T |-> setTimeout(clearTimeout(T3, p), p)]

\* CafePlayer.start after its guard
CafeStart(W, p) ==
    LET r == W.I[p]
        I1 == IF HasAmbience(r)
              THEN [W.I EXCEPT ![p].isPlaying = TRUE, ![p].src = TRUE, ![p].gain = "mid"]
              ELSE [W.I EXCEPT ![p].isPlaying = TRUE]
        T1 == IF HasAmbience(r) THEN rampUp(W.T, p, DefaultFadeIn) ELSE W.T
        T2 == IF Buffers(r) > 0 THEN setTimeout(T1, p) ELSE T1
    IN  [I |-> I1, T |-> T2]

\* WindPlayer.start after its guard: WindSynth.start, then _startRecordingLayer
WindStart(W, p) ==
    LET r == W.I[p]
        I1 == [W.I EXCEPT ![p].isPlaying = TRUE, ![p].syn = TRUE, ![p].gain = "mid",
                          ![p].src = IF Buffers(r) > 0 THEN TRUE ELSE r.src]
        T1 == rampUp(W.T, p, IF Buffers(r) > 0 THEN WindRecordingFadeIn
                                                ELSE DefaultFadeIn)
        T2 == IF Buffers(r) > 0 THEN setTimeout(T1, p) ELSE T1
    IN  [I |-> I1, T |-> T2]

\* variant for C30: start does not ask whether the instance is playing
PlayerStart_Again(W, p) ==
    LET r == W.I[p] IN
    IF ~r.isLoaded THEN W
    ELSE CASE r.kind = "loop" ->
                LoopPlayNext([W EXCEPT !.I[p].isPlaying = TRUE], p, DefaultFadeIn)
           [] r.kind = "cafe" -> CafeStart(W, p)
           [] OTHER -> WindStart(W, p)

\* player.start()
PlayerStart(W, p) ==
    LET r == W.I[p] IN
    IF ~r.isLoaded \/ r.isPlaying THEN W
    ELSE CASE r.kind = "loop" ->
                LoopPlayNext([W EXCEPT !.I[p].isPlaying = TRUE], p, DefaultFadeIn)
           [] r.kind = "cafe" -> CafeStart(W, p)
           [] OTHER -> WindStart(W, p)

\* the gain an immediate or a timed ramp to zero leaves right after the call
GainAfterStop(T, p, f) ==
    IF f = 0 /\ ~GainPending(T, p) THEN "zero" ELSE "mid"

\* player.stop(f); w, h: an engine stop() / a hook togglePlay awaits the result;
\* tag: the stop comes from the switch whose fade window is being watched.
\* done: the promise is already settled when stop() returns
PlayerStop(W, p, f, w, h, tag) ==
    LET r == W.I[p]
        T0 == clearTimeout(W.T, p)
        e == [Entry(p, "fade", f) EXCEPT !.w = w, !.h = h, !.tag = tag]
    IN
    IF ~r.isPlaying THEN [I |-> W.I, T |-> W.T, done |-> TRUE]
    ELSE IF r.kind = "loop" /\ ~r.src
         THEN [I |-> [W.I EXCEPT ![p].isPlaying = FALSE], T |-> T0, done |-> TRUE]
    ELSE IF r.kind = "wind" /\ r.syn
         THEN [I |-> [W.I EXCEPT ![p].isPlaying = FALSE,
                                 ![p].gain = GainAfterStop(T0, p, f)],
               T |-> Append(T0, [e EXCEPT !.k = "synfade", !.nx = TRUE, !.g = (f > 0)]),
               done |-> FALSE]
    ELSE [I |-> [W.I EXCEPT ![p].isPlaying = FALSE,
                            ![p].gain = GainAfterStop(T0, p, f)],
          T |-> Append(T0, [e EXCEPT !.g = (f > 0)]),
          done |-> FALSE]

\* player.dispose(): stop(0), drop the buffers, disconnect
PlayerDispose(W, p) ==
    LET W1 == PlayerStop(W, p, 0, FALSE, FALSE, FALSE)
        r == W1.I[p]
        \* WindPlayer.dispose -> WindSynth.dispose -> WindSynth.stop(0) while the synth plays
        T1 == IF r.kind = "wind" /\ r.syn
              THEN Append(W1.T, Entry(p, "synfade", 0))
              ELSE W1.T
    IN  [I |-> [W1.I EXCEPT ![p].disp = TRUE,
                            ![p].isLoaded = IF r.kind = "loop" THEN FALSE ELSE r.isLoaded],
         T |-> T1]

\* ---- AudioAnalyzer ----
\* Levels are hundredths (Unit = 1.0); the analyser node has FrequencyBinCount bins,
\* one per band, and hands out bytes.

Unit == 100
Bins == 1..FrequencyBinCount

\* the band limits the constructor computes: [start, end) in 0-based bins
lowBinStart == 0
lowBinEnd == FrequencyBinCount \div 3
midBinEnd == (2 * FrequencyBinCount) \div 3
highBinEnd == FrequencyBinCount

Min(a, b) == IF a < b THEN a ELSE b
Max(a, b) == IF a > b THEN a ELSE b

\* Math.sqrt, rounded down
ISqrt(x) == CHOOSE r \in 0..(2 * Unit) : r * r <= x /\ (r = 2 * Unit \/ (r + 1) * (r + 1) > x)

RECURSIVE SumBins(_, _, _)
SumBins(data, i, end) == IF i >= end THEN 0 ELSE data[i + 1] + SumBins(data, i + 1, end)

\* AudioAnalyzer._getAverageEnergy
_getAverageEnergy(frequencyData, startBin, endBin) ==
    LET clampedEnd == Min(endBin, FrequencyBinCount)
        count == clampedEnd - startBin
    IN  IF count <= 0 THEN 0
        ELSE (SumBins(frequencyData, startBin, clampedEnd) * Unit) \div (count * 255)

RECURSIVE SumSquares(_, _)
SumSquares(data, i) ==
    IF i > Len(data) THEN 0
    ELSE (data[i] - 128) * (data[i] - 128) + SumSquares(data, i + 1)

\* AudioAnalyzer._getRMSVolume
_getRMSVolume(timeDomainData) ==
    LET meanSquare == SumSquares(timeDomainData, 1) \div Len(timeDomainData)
        rms2 == ISqrt((meanSquare * 4 * Unit * Unit) \div (128 * 128))
    IN  Min(rms2, Unit)

\* AudioAnalyzer._smooth with smoothingFactor f
_smooth(f, currentSmoothed, newValue) ==
    (currentSmoothed * (Unit - f) + newValue * f) \div Unit

ZeroData == [lowFrequency |-> 0, midFrequency |-> 0, highFrequency |-> 0, volume |-> 0]

\* the literal of zeros getAudioData returns when there is no analyzer
NoSnapshot == [live |-> FALSE, data |-> ZeroData]

\* new AudioAnalyzer(context, options)
NewAnalyzer == [smoothedData |-> ZeroData, smoothingFactor |-> DefaultSmoothingFactor]

\* AudioAnalyzer.update; sig is what the analyser node hands out at this tick
update(A, sig) ==
    LET f == A.smoothingFactor
        d == A.smoothedData
    IN  [A EXCEPT !.smoothedData =
            [lowFrequency |-> _smooth(f, d.lowFrequency,
                                  _getAverageEnergy(sig.frequencyData, lowBinStart, lowBinEnd)),
             midFrequency |-> _smooth(f, d.midFrequency,
                                  _getAverageEnergy(sig.frequencyData, lowBinEnd, midBinEnd)),
             highFrequency |-> _smooth(f, d.highFrequency,
                                  _getAverageEnergy(sig.frequencyData, midBinEnd, highBinEnd)),
             volume |-> _smooth(f, d.volume, _getRMSVolume(sig.timeDomainData))]]

\* variant for C15: getData hands out this.smoothedData itself
getData_Live(A) == [live |-> TRUE, data |-> A.smoothedData]

\* AudioAnalyzer.getData: { ...this.smoothedData }, a new object
getData(A) == [live |-> FALSE, data |-> A.smoothedData]

\* AudioAnalyzer.reset: this.smoothedData is a new object of zeros
reset(A) == [A EXCEPT !.smoothedData = ZeroData]

\* variant for C16: the factor is taken as given
ClampFactor_None(factor) == factor

\* Math.max(0.01, Math.min(1, factor))
ClampFactor(factor) == Max(1, Min(Unit, factor))

\* AudioAnalyzer.setSmoothingFactor
setSmoothingFactor(A, factor) == [A EXCEPT !.smoothingFactor = ClampFactor(factor)]

\* what the analyser node may hand out: silence, a full-scale signal, something between
Signals ==
    {[frequencyData |-> [i \in Bins |-> 0], timeDomainData |-> [i \in Bins |-> 128]],
     [frequencyData |-> [i \in Bins |-> 255],
      timeDomainData |-> [i \in Bins |-> IF i % 2 = 0 THEN 255 ELSE 0]],
     [frequencyData |-> [i \in Bins |-> IF i = 1 THEN 255 ELSE 40],
      timeDomainData |-> [i \in Bins |-> IF i = 1 THEN 100 ELSE 160]]}

\* ---- AudioEngine: operations on a state record S ----
\* S = [I, T, pl (players), cp (currentPlayer), cs (currentScene), ip (isPlaying),
\*      hs, hp, lk (the hook's currentScene, isPlaying, isSwitchingRef), rej, res,
\*      vol (masterGain.gain), lp, af (analysis loops, animationFrameId),
\*      an, sn (analyzer state, snapshot handed out), fr, up, thr, arg]
\* res: "done" the call returned, "await" it is suspended, "full" the model has no room

SceneOrder == <<"rain", "cafe", "wind">>

World(S) == [I |-> S.I, T |-> S.T]

\* AudioEngine.isSceneLoaded
isSceneLoaded(S, s) == S.pl[s] # 0 /\ S.I[S.pl[s]].isLoaded

FreeSlots(I) == {i \in InstIds : I[i].st = "free"}
MinOf(X) == CHOOSE x \in X : \A y \in X : x <= y

\* AudioEngine._loadScene up to its await; cfg is options.scenes, ctx this.audioContext
_loadScene(S, cfg, ctx, s, w, wf, wh) ==
    IF S.pl[s] # 0 \/ cfg[s] \in {"none", "nofiles"} THEN [S EXCEPT !.res = "done"]
    ELSE IF FreeSlots(S.I) = {} THEN [S EXCEPT !.res = "full"]
    ELSE [S EXCEPT !.I[MinOf(FreeSlots(S.I))] = NewPlayer(s, cfg[s], ctx, w, wf, wh),
                   !.res = "await"]

\* useStay.switchScene after its awaited engine call: state update and lock release
HookSettled(S, s) == [S EXCEPT !.hs = s, !.hp = TRUE, !.lk = FALSE]

\* AudioEngine.play from "stop the current one" on (the scene is loaded)
\* (players.get(scene) undefined: "player.start()" is a TypeError)
PlayFinish(S, s) ==
    LET W1 == IF S.cp # 0 THEN PlayerStop(World(S), S.cp, 0, FALSE, FALSE, FALSE)
              ELSE World(S)
        W2 == PlayerStart([I |-> W1.I, T |-> W1.T], S.pl[s])
    IN  IF S.pl[s] = 0 THEN [S EXCEPT !.I = W1.I, !.T = W1.T, !.thr = TRUE]
        ELSE [S EXCEPT !.I = W2.I, !.T = W2.T, !.cp = S.pl[s], !.cs = s, !.ip = TRUE]

\* variant for C5: the engine fields are left for after the old player's fade
SwitchFinish_AfterFade(S, s, f, tag) ==
    LET W1 == PlayerStart(World(S), S.pl[s])
        W2 == IF S.cp # 0 THEN PlayerStop(W1, S.cp, f, FALSE, FALSE, tag) ELSE W1
    IN  [S EXCEPT !.I = W2.I, !.T = W2.T]

\* AudioEngine.switchScene from "const oldPlayer" on (the scene is loaded)
\* (players.get(scene) undefined: "newPlayer.start()" is a TypeError)
SwitchFinish(S, s, f, tag) ==
    LET W1 == PlayerStart(World(S), S.pl[s])
        W2 == IF S.cp # 0 THEN PlayerStop(W1, S.cp, f, FALSE, FALSE, tag) ELSE W1
    IN  IF S.pl[s] = 0 THEN [S EXCEPT !.thr = TRUE]
        ELSE [S EXCEPT !.I = W2.I, !.T = W2.T, !.cp = S.pl[s], !.cs = s, !.ip = TRUE]

\* variant for C12: play does not ask whether the scene is already playing
play_Always(S, init, cfg, ctx, s, wh) ==
    IF ~init THEN [S EXCEPT !.res = "done"]
    ELSE IF isSceneLoaded(S, s) THEN [PlayFinish(S, s) EXCEPT !.res = "done"]
    ELSE _loadScene(S, cfg, ctx, s, "play", 0, wh)

\* variant for C18: play does not ask whether the engine is initialized
play_Uninitialized(S, init, cfg, ctx, s, wh) ==
    IF S.cs = s /\ S.ip THEN [S EXCEPT !.res = "done"]
    ELSE IF isSceneLoaded(S, s) THEN [PlayFinish(S, s) EXCEPT !.res = "done"]
    ELSE _loadScene(S, cfg, ctx, s, "play", 0, wh)

\* AudioEngine.play(s), up to its return or its await of _loadScene
play(S, init, cfg, ctx, s, wh) ==
    IF ~init \/ (S.cs = s /\ S.ip) THEN [S EXCEPT !.res = "done"]
    ELSE IF isSceneLoaded(S, s) THEN [PlayFinish(S, s) EXCEPT !.res = "done"]
    ELSE _loadScene(S, cfg, ctx, s, "play", 0, wh)

\* AudioEngine.switchScene(s, f), up to its return or its await of _loadScene
switchScene(S, init, cfg, ctx, s, f, wh, tag) ==
    IF ~init \/ S.cs = s THEN [S EXCEPT !.res = "done"]
    ELSE IF isSceneLoaded(S, s) THEN [SwitchFinish(S, s, f, tag) EXCEPT !.res = "done"]
    ELSE _loadScene(S, cfg, ctx, s, "switch", f, wh)

\* variant for C34: the continuation of stop leaves currentScene as it is
StopFinish_KeepScene(S) == [S EXCEPT !.cp = 0, !.ip = FALSE]

\* AudioEngine.stop after "await this.currentPlayer.stop(fadeTime)"
StopFinish(S) == [S EXCEPT !.cp = 0, !.cs = NoScene, !.ip = FALSE]

\* AudioEngine.stop(f), up to its return or its await; h: togglePlay awaits it
stop(S, f, h) ==
    IF ~S.ip \/ S.cp = 0 THEN [S EXCEPT !.res = "done"]
    ELSE LET R == PlayerStop(World(S), S.cp, f, TRUE, h, FALSE)
             S1 == [S EXCEPT !.I = R.I, !.T = R.T]
         IN  IF R.done THEN [StopFinish(S1) EXCEPT !.res = "done"]
             ELSE [S1 EXCEPT !.res = "await"]

\* variant for C10: connect never throws, the player is always registered
LoadSceneFinish_NoThrow(S, mg, i) == [S EXCEPT !.pl[S.I[i].scene] = i]

\* _loadScene after "await player.load()": connect, then players.set
\* (connect throws, and the catch swallows it, when there is no master gain or it
\* belongs to another context)
LoadSceneFinish(S, mg, i) ==
    IF mg # 0 /\ mg = S.I[i].ctx THEN [S EXCEPT !.pl[S.I[i].scene] = i] ELSE S

\* variant for C7: the caller goes on without asking isSceneLoaded again
AfterLoad_NoCheck(S, s, w, wf, wh) ==
    LET S1 == CASE w = "play" /\ S.pl[s] # 0 -> PlayFinish(S, s)
                [] w = "switch" /\ S.pl[s] # 0 -> SwitchFinish(S, s, wf, FALSE)
                [] OTHER -> S
    IN  IF wh THEN HookSettled(S1, s) ELSE S1

\* the caller that awaited _loadScene: play / switchScene, then the hook behind it
\* (an exception out of _loadScene leaves play / switchScene at once; the hook's
\* "finally" releases the lock)
AfterLoad(S, s, w, wf, wh) ==
    LET S1 == CASE w = "play" /\ isSceneLoaded(S, s) -> PlayFinish(S, s)
                [] w = "switch" /\ isSceneLoaded(S, s) -> SwitchFinish(S, s, wf, FALSE)
                [] OTHER -> S
    IN  IF w = "none" THEN [S EXCEPT !.thr = FALSE]
        ELSE IF S.thr THEN [S EXCEPT !.lk = IF wh THEN FALSE ELSE S.lk]
        ELSE IF wh /\ S1.thr THEN [S1 EXCEPT !.lk = FALSE]
        ELSE IF wh THEN HookSettled(S1, s) ELSE S1

\* ---- timer and ramp-end tasks ----

\* the gain a finished ramp leaves: its target, unless another ramp of the node follows
GainAt(T, p, target) == IF GainPending(T, p) THEN "mid" ELSE target

\* player.stop after its "await new Promise(setTimeout)": stop and drop the source
\* the player holds NOW (this.currentSource / this.ambienceSource)
StopSource(S, p) ==
    IF S.I[p].kind = "loop"
    THEN [S EXCEPT !.I[p].src = FALSE, !.I[p].gain = "zero",
                   !.T = SelectSeq(S.T, LAMBDA e : ~(e.p = p /\ e.k = "ramp"))]
    ELSE [S EXCEPT !.I[p].src = FALSE]

\* the callback of nextTimeout / sfxTimer / crossfadeTimer
NextCallback(S, p) ==
    LET r == S.I[p] IN
    IF ~r.isPlaying THEN S
    ELSE CASE r.kind = "loop" ->
                IF Buffers(r) = 0 THEN S
                ELSE LET W == LoopPlayNext(World(S), p, RainCrossfade)
                     IN  [S EXCEPT !.I = W.I, !.T = W.T]
           [] r.kind = "cafe" -> [S EXCEPT !.T = setTimeout(S.T, p)]
           [] OTHER ->
                IF Buffers(r) = 0 THEN S
                ELSE [S EXCEPT !.I[p].src = TRUE, !.T = setTimeout(S.T, p)]

\* the fade-ins that have ended by the time the timeout e fires: those scheduled
\* before it for no longer a time
RECURSIVE RampsEnded(_, _, _)
RampsEnded(S, n, d) ==
    IF n = 0 THEN S
    ELSE LET k == CHOOSE j \in 1..n :
                     /\ S.T[j].k = "ramp" /\ S.T[j].dur <= d
                     /\ \A m \in 1..(j - 1) : ~(S.T[m].k = "ramp" /\ S.T[m].dur <= d)
         IN  IF \E j \in 1..n : S.T[j].k = "ramp" /\ S.T[j].dur <= d
             THEN RampsEnded([S EXCEPT !.T = RemoveAt(S.T, k),
                                       !.I[S.T[k].p].gain =
                                           GainAt(RemoveAt(S.T, k), S.T[k].p,
                                                  IF S.T[k].g THEN "mid" ELSE "full")],
                             n - 1, d)
             ELSE S

\* entry i of the list fires
FireEntry(SS, i) ==
    LET e == SS.T[i]
        p == e.p
        S == RampsEnded([SS EXCEPT !.T = RemoveAt(SS.T, i)], i - 1, e.dur)
        S0 == S
        \* the ramp to zero of this stop() ends on the node; a fade-in of the same node
        \* that is still pending may have ended before it or may end after it, so where
        \* the gain comes to rest is then not known ("mid")
        S1 == IF e.g
              THEN [S0 EXCEPT !.I[p].gain = GainAt(S0.T, p, "zero"),
                              !.T = [j \in DOMAIN S0.T |->
                                        IF S0.T[j].p = p /\ S0.T[j].k = "ramp"
                                        THEN [S0.T[j] EXCEPT !.g = TRUE] ELSE S0.T[j]]]
              ELSE S0
    IN  CASE e.k = "next" -> NextCallback(S0, p)
          [] e.k = "synfade" ->
                \* WindSynth.stop after fadeOut: noise and LFOs go, isPlaying = false;
                \* then WindPlayer.stop goes on to its own timeout
                LET S2 == [S1 EXCEPT !.I[p].syn = FALSE]
                IN  IF e.nx
                    THEN [S2 EXCEPT !.T = Append(S2.T,
                              [Entry(p, "fade", e.dur) EXCEPT !.w = e.w, !.h = e.h,
                                                              !.tag = e.tag])]
                    ELSE S2
          [] OTHER ->
                LET S2 == StopSource(S1, p)
                    S3 == IF e.w THEN StopFinish(S2) ELSE S2
                IN  IF e.h THEN [S3 EXCEPT !.hp = FALSE] ELSE S3

\* ---- reading and writing the variables ----

Untag(T) == [i \in DOMAIN T |-> [T[i] EXCEPT !.tag = FALSE]]

\* the state a task starts from; an API call, or a suspended one that resumes,
\* ends the fade window being watched
Cur(apiCall) ==
    [I |-> inst, T |-> IF apiCall THEN Untag(timers) ELSE timers, pl |-> players,
     cp |-> currentPlayer, cs |-> currentScene, ip |-> isPlaying,
     hs |-> hookScene, hp |-> hookPlaying, lk |-> isSwitchingRef, rej |-> rejected,
     res |-> "done", vol |-> volume, lp |-> loops, af |-> animationFrameId,
     an |-> analysis, sn |-> snapshot, fr |-> frames, up |-> 0, thr |-> FALSE,
     arg |-> 0]

\* instances nothing refers to any more are garbage
Garbage(S, i) ==
    /\ S.I[i].st = "settled"
    /\ ~S.I[i].isPlaying
    /\ S.cp # i
    /\ \A s \in SceneIds : S.pl[s] # i
    /\ \A j \in DOMAIN S.T : S.T[j].p # i

Collect(S) == [i \in InstIds |-> IF Garbage(S, i) THEN FreeInst ELSE S.I[i]]

Commit(S, l) ==
    /\ S.res # "full"
    /\ Len(Timeouts(S.T)) <= MaxTimers
    /\ inst' = Collect(S)
    /\ timers' = S.T
    /\ players' = S.pl
    /\ currentPlayer' = S.cp
    /\ currentScene' = S.cs
    /\ isPlaying' = S.ip
    /\ hookScene' = S.hs
    /\ hookPlaying' = S.hp
    /\ isSwitchingRef' = S.lk
    /\ rejected' = S.rej
    /\ volume' = S.vol
    /\ loops' = S.lp
    /\ animationFrameId' = S.af
    /\ analysis' = S.an
    /\ snapshot' = S.sn
    /\ frames' = S.fr
    /\ updates' = S.up
    /\ threw' = S.thr
    /\ arg' = S.arg
    /\ UNCHANGED <<ctxCap, defaultVolume, partVars>>
    /\ last' = l

\* ---- useStay ----

\* the switch this model watches through its fade window:
\* switchScene("cafe", 3) while "rain" is current and sounding
WatchedSwitch(S, s, f) ==
    /\ s = "cafe" /\ f = FADE_DURATION
    /\ S.cs = "rain" /\ S.ip /\ S.cp # 0
    /\ S.I[S.cp].isPlaying /\ S.I[S.cp].src

\* variant for C1: the isSwitchingRef check is left out
HookSwitchBody_NoLock(S, init, cfg, ctx, s) ==
    IF s = S.hs /\ S.hp THEN [S EXCEPT !.res = "done"]
    ELSE LET S0 == [S EXCEPT !.lk = TRUE, !.rej = FALSE]
             R == IF S.hp /\ s # S.hs
                  THEN switchScene(S0, init, cfg, ctx, s, FADE_DURATION, TRUE,
                                   WatchedSwitch(S0, s, FADE_DURATION))
                  ELSE play(S0, init, cfg, ctx, s, TRUE)
         IN  IF R.res = "done" THEN HookSettled(R, s) ELSE R

\* useStay.switchScene after "await ensureInit()" returned true
HookSwitchBody(S, init, cfg, ctx, s) ==
    IF S.lk THEN [S EXCEPT !.rej = TRUE, !.res = "done"]
    ELSE IF s = S.hs /\ S.hp THEN [S EXCEPT !.res = "done"]
    ELSE LET S0 == [S EXCEPT !.lk = TRUE, !.rej = FALSE]
             R == IF S.hp /\ s # S.hs
                  THEN switchScene(S0, init, cfg, ctx, s, FADE_DURATION, TRUE,
                                   WatchedSwitch(S0, s, FADE_DURATION))
                  ELSE play(S0, init, cfg, ctx, s, TRUE)
         IN  IF R.res = "done" /\ R.thr THEN [R EXCEPT !.lk = FALSE]
             ELSE IF R.res = "done" THEN HookSettled(R, s) ELSE R

\* useStay.togglePlay after "await ensureInit()" returned true
HookToggleBody(S, init, cfg, ctx) ==
    IF S.hp
    THEN LET R == stop(S, FADE_DURATION, TRUE)
         IN  IF R.res = "done" THEN [R EXCEPT !.hp = FALSE] ELSE R
    ELSE HookSwitchBody(S, init, cfg, ctx, S.hs)

HookBody(S, init, cfg, ctx, hk, s) ==
    CASE hk = "switch" -> HookSwitchBody(S, init, cfg, ctx, s)
      [] hk = "toggle" -> HookToggleBody(S, init, cfg, ctx)
      [] OTHER -> S

\* ---- AudioEngine.init ----

\* _preloadScenes: _loadScene for every configured scene, none awaited
RECURSIVE PreloadFrom(_, _, _, _)
PreloadFrom(S, cfg, ctx, k) ==
    IF k > Len(SceneOrder) \/ S.res = "full" THEN S
    ELSE PreloadFrom(_loadScene(S, cfg, ctx, SceneOrder[k], "none", 0, FALSE),
                     cfg, ctx, k + 1)

_preloadScenes(S, cfg, ctx) ==
    LET R == PreloadFrom(S, cfg, ctx, 1)
    IN  IF R.res = "full" THEN R ELSE [R EXCEPT !.res = "done"]

\* masterGain.gain of a node nothing has been scheduled on
GainParam(v) == [value |-> v, target |-> v, left |-> 0]

\* analyzer.update() called by the engine; a snapshot that is the analyzer's own
\* smoothedData object shows the new values
AnalyzerUpdate(S, sig) ==
    LET A == update(S.an, sig)
    IN  [S EXCEPT !.an = A, !.up = @ + 1,
                  !.sn = IF S.sn.live THEN [S.sn EXCEPT !.data = A.smoothedData]
                         ELSE S.sn]

\* one run of the closure "loop" of _startAnalysisLoop
AnalysisLoop(S, an, sig) ==
    LET S1 == IF an # 0 /\ S.ip THEN AnalyzerUpdate(S, sig) ELSE S
    IN  [S1 EXCEPT !.af = TRUE]

\* AudioEngine._startAnalysisLoop: a new loop, run once at once
_startAnalysisLoop(S, an, sig) == AnalysisLoop([S EXCEPT !.lp = @ + 1], an, sig)

\* AudioEngine._stopAnalysisLoop: cancels the frame the field names
_stopAnalysisLoop(S) == IF S.af THEN [S EXCEPT !.lp = @ - 1, !.af = FALSE] ELSE S

\* variant for C13: the value is written as given
ClampVolume_None(value) == value

\* Math.max(0, Math.min(1, value))
ClampVolume(value) == Max(0, Min(Unit, value))

\* variant for C14: the new ramp starts from the target of the ramp it replaces
HeldValue_Target(vol) == vol.target

\* gain.cancelScheduledValues(now); gain.setValueAtTime(gain.value, now):
\* the value the parameter has at this instant is where the new ramp starts
HeldValue(vol) == vol.value

\* AudioEngine.setVolume(value, rampTime)
setVolume(S, mg, ctx, value, rampTime) ==
    IF mg = 0 \/ ctx = 0 THEN S
    ELSE [S EXCEPT !.vol = [value |-> IF rampTime = 0 THEN ClampVolume(value)
                                      ELSE HeldValue(S.vol),
                            target |-> ClampVolume(value),
                            left |-> rampTime]]

\* a linear ramp Tick later: the value has moved Tick / left of the way to the target
RampStep(vol) ==
    IF vol.left <= Tick THEN [value |-> vol.target, target |-> vol.target, left |-> 0]
    ELSE [vol EXCEPT !.value = vol.value + ((vol.target - vol.value) * Tick) \div vol.left,
                     !.left = vol.left - Tick]

\* init() from createGain on, in context ctx; then the hook call that awaited it
InitFinish(S, ctx, hk, hs) ==
    /\ masterGain' = ctx
    /\ analyzer' = ctx
    /\ isInitialized' = TRUE
    /\ \E sig \in (IF S.ip THEN Signals ELSE {CHOOSE g \in Signals : TRUE}) :
           LET S1 == [S EXCEPT !.vol = GainParam(defaultVolume), !.an = NewAnalyzer,
                               !.sn = [S.sn EXCEPT !.live = FALSE]]
               S2 == _startAnalysisLoop(S1, ctx, sig)
           IN  Commit(HookBody(_preloadScenes(S2, scenes, ctx), TRUE, scenes, ctx, hk, hs),
                      Last("init", NoScene))

\* variant for C20: the scenes are preloaded before the context is asked for
InitDenied_Preloaded(S, cfg) == _preloadScenes(S, cfg, 0)

\* init() when new AudioContext() throws: nothing has been assigned, the catch
\* block logs and throws again
InitDenied(S, cfg) == S

\* init() called (hk = "none": by the application; else by ensureInit of a hook call)
InitCall(hk, hs) ==
    /\ ~isInitialized
    /\ destroyed' = FALSE
    /\ UNCHANGED scenes
    /\ \/ \* new AudioContext() throws: init rejects, ensureInit returns false
          /\ Commit(InitDenied(Cur(TRUE), scenes), Last("initDenied", NoScene))
          /\ UNCHANGED <<audioContext, masterGain, analyzer, isInitialized, inits, nCtx>>
       \/ \* the context is running
          /\ nCtx < ctxCap
          /\ nCtx' = nCtx + 1
          /\ audioContext' = nCtx + 1
          /\ InitFinish(Cur(TRUE), nCtx + 1, hk, hs)
          /\ UNCHANGED inits
       \/ \* the context is suspended: await resume()
          /\ nCtx < ctxCap
          /\ nCtx' = nCtx + 1
          /\ audioContext' = nCtx + 1
          /\ inits' = inits \cup {[ctx |-> nCtx + 1, hk |-> hk, hs |-> hs, dead |-> FALSE]}
          /\ Commit(Cur(TRUE), Last("initAwait", NoScene))
          /\ UNCHANGED <<masterGain, analyzer, isInitialized>>

\* AudioEngine.init()
init ==
    \/ InitCall("none", NoScene) /\ UNCHANGED calls
    \/ \* already initialized: return
       /\ isInitialized
       /\ UNCHANGED calls
       /\ destroyed' = FALSE
       /\ Commit(Cur(TRUE), Last("initNoop", NoScene))
       /\ UNCHANGED <<audioContext, masterGain, analyzer, isInitialized, scenes,
                      inits, nCtx>>

\* resume() settles for a suspended init()
InitResume ==
    \E r \in inits :
        /\ inits' = inits \ {r}
        /\ UNCHANGED <<audioContext, scenes, nCtx, calls, destroyed>>
        /\ IF r.dead \/ audioContext = 0
           THEN \* resume() rejected, or createGain on null throws: init rejects
                /\ Commit(Cur(FALSE), Last("initFailed", NoScene))
                /\ UNCHANGED <<masterGain, analyzer, isInitialized>>
           ELSE InitFinish(Cur(FALSE), audioContext, r.hk, r.hs)

\* ---- API calls ----

Called ==
    /\ calls < MaxCalls
    /\ calls' = calls + 1
    /\ UNCHANGED <<audioContext, masterGain, analyzer, isInitialized, inits, nCtx,
                   destroyed>>

\* engine.play(s) called by the application
AppPlay ==
    \E s \in SceneIds :
        /\ Called
        /\ UNCHANGED scenes
        /\ Commit(play(Cur(TRUE), isInitialized, scenes, audioContext, s, FALSE),
                  Last("play", s))

\* engine.switchScene(s, f) called by the application
AppSwitchScene ==
    \E s \in SceneIds, f \in {FADE_DURATION} :
        /\ Called
        /\ UNCHANGED scenes
        /\ Commit(switchScene(Cur(TRUE), isInitialized, scenes, audioContext, s, f,
                              FALSE, WatchedSwitch(Cur(TRUE), s, f)),
                  Last("switchScene", s))

\* engine.stop(f) called by the application
AppStop ==
    \E f \in {FADE_DURATION} :
        /\ Called
        /\ UNCHANGED scenes
        /\ Commit(stop(Cur(TRUE), f, FALSE), Last("stop", currentScene))

\* engine.addScene(s, config)
addScene ==
    \E s \in SceneIds, k \in {"loop", "nofiles"} :
        /\ scenes[s] \in {"none", "nofiles"}
        /\ Called
        /\ scenes' = [scenes EXCEPT ![s] = k]
        /\ Commit(IF isInitialized
                  THEN _loadScene(Cur(TRUE), scenes', audioContext, s, "none", 0, FALSE)
                  ELSE Cur(TRUE),
                  Last("addScene", s))

\* players.forEach(player => { player.stop(0); player.dispose(); })
RECURSIVE DisposeFrom(_, _, _)
DisposeFrom(W, pl, k) ==
    IF k > Len(SceneOrder) THEN W
    ELSE IF pl[SceneOrder[k]] = 0 THEN DisposeFrom(W, pl, k + 1)
    ELSE LET W1 == PlayerStop(W, pl[SceneOrder[k]], 0, FALSE, FALSE, FALSE)
         IN  DisposeFrom(PlayerDispose([I |-> W1.I, T |-> W1.T], pl[SceneOrder[k]]),
                         pl, k + 1)

\* AudioEngine.destroy: the fields it leaves
Destroyed(S) ==
    LET W == DisposeFrom(World(S), S.pl, 1)
        S1 == _stopAnalysisLoop(S)
    IN  [S1 EXCEPT !.I = W.I, !.T = W.T, !.pl = [s \in SceneIds |-> 0],
                   !.cp = 0, !.cs = NoScene, !.ip = FALSE,
                   !.vol = GainParam(0), !.an = NewAnalyzer,
                   !.sn = [S.sn EXCEPT !.live = FALSE]]

\* engine.destroy()
destroy ==
    /\ calls < MaxCalls
    /\ calls' = calls + 1
    /\ destroyed' = TRUE
    /\ analyzer' = 0
    /\ masterGain' = 0
    /\ audioContext' = 0
    /\ isInitialized' = FALSE
    /\ inits' = {IF r.ctx = audioContext THEN [r EXCEPT !.dead = TRUE] ELSE r : r \in inits}
    /\ UNCHANGED <<scenes, nCtx>>
    /\ Commit(Destroyed(Cur(TRUE)), Last("destroy", currentScene))

\* useStay.switchScene(newScene) / togglePlay(): ensureInit, then the body
HookCall(hk, s) ==
    /\ ~destroyed
    /\ IF isInitialized
       THEN /\ Called
            /\ UNCHANGED scenes
            /\ Commit(HookBody(Cur(TRUE), TRUE, scenes, audioContext, hk, s),
                      Last(hk, s))
       ELSE /\ calls < MaxCalls
            /\ calls' = calls + 1
            /\ InitCall(hk, s)

useStay_switchScene == \E s \in {"rain", "cafe", "wind"} : HookCall("switch", s)

togglePlay == HookCall("toggle", NoScene)

\* what the application passes to setVolume: below 0, inside [0, 1], above 1
VolumeInputs == {0 - 50, 20, 80, 150}

\* engine.setVolume(value, rampTime) called by the application
AppSetVolume ==
    \E value \in VolumeInputs, rampTime \in {DefaultRampTime} :
        /\ Called
        /\ UNCHANGED scenes
        /\ Commit([setVolume(Cur(TRUE), masterGain, audioContext, value, rampTime)
                       EXCEPT !.arg = value],
                  Last("setVolume", NoScene))

\* engine.getAudioData() called by the application
getAudioData ==
    /\ Called
    /\ UNCHANGED scenes
    /\ Commit([Cur(FALSE) EXCEPT !.sn = IF analyzer = 0 THEN NoSnapshot
                                        ELSE getData(analysis)],
              Last("getAudioData", NoScene))

\* the application writes into the snapshot it was handed
MutateSnapshot ==
    /\ Called
    /\ UNCHANGED scenes
    /\ LET S == Cur(FALSE)
           d == [S.sn.data EXCEPT !.volume = 5 * Unit]
       IN  Commit([S EXCEPT !.sn.data = d,
                            !.an.smoothedData = IF S.sn.live THEN d ELSE @],
                  Last("mutate", NoScene))

\* engine.analyzer.reset() called by the application
AnalyzerReset ==
    /\ analyzer # 0
    /\ Called
    /\ UNCHANGED scenes
    /\ Commit([Cur(FALSE) EXCEPT !.an = reset(analysis), !.sn.live = FALSE],
              Last("reset", NoScene))

\* what the application passes to setSmoothingFactor: below 0.01, above 1
FactorInputs == {0 - 20, 150}

\* engine.analyzer.setSmoothingFactor(factor) called by the application
AnalyzerSetSmoothingFactor ==
    \E factor \in FactorInputs :
        /\ analyzer # 0
        /\ Called
        /\ UNCHANGED scenes
        /\ Commit([Cur(FALSE) EXCEPT !.an = setSmoothingFactor(analysis, factor),
                                     !.arg = factor],
                  Last("setSmoothingFactor", NoScene))

\* ---- tasks ----

\* every live analysis loop runs once in a render tick
RECURSIVE RunLoops(_, _, _, _)
RunLoops(S, an, sig, n) ==
    IF n = 0 THEN S ELSE RunLoops(AnalysisLoop(S, an, sig), an, sig, n - 1)

\* a render tick: the animation frames requested by the analysis loops run
Frame ==
    \E sig \in Signals :
        /\ loops > 0
        /\ frames < MaxFrames
        /\ Commit([RunLoops(Cur(FALSE), analyzer, sig, loops) EXCEPT !.fr = @ + 1],
                  Last("frame", NoScene))
        /\ UNCHANGED <<audioContext, masterGain, analyzer, isInitialized, scenes, inits,
                       nCtx, calls, destroyed>>

\* Tick milliseconds pass while a ramp of the master gain is in progress
VolumeTick ==
    /\ volume.left > 0
    /\ Commit([Cur(FALSE) EXCEPT !.vol = RampStep(volume)], Last("volumeTick", NoScene))
    /\ UNCHANGED <<audioContext, masterGain, analyzer, isInitialized, scenes, inits,
                   nCtx, calls, destroyed>>

\* player.load() of instance i settles: amb, good are the assets that decoded
LoadDone ==
    \E i \in InstIds, amb \in BOOLEAN, good \in 0..MaxGood :
        /\ inst[i].st = "loading"
        /\ amb => inst[i].kind = "cafe"
        /\ LET r == inst[i]
               S0 == Cur(r.w # "none")
               S1 == [S0 EXCEPT !.I[i] = [r EXCEPT !.st = "settled", !.amb = amb,
                                                   !.good = good,
                                                   !.isLoaded = LoadedFlag(r.kind, amb, good),
                                                   !.w = "none", !.wf = 0, !.wh = FALSE]]
               S2 == LoadSceneFinish(S1, masterGain, i)
           IN  Commit(AfterLoad(S2, r.scene, r.w, r.wf, r.wh),
                      Last(IF r.w = "none" THEN "loaded" ELSE r.w \o "Done", r.scene))
        /\ UNCHANGED <<audioContext, masterGain, analyzer, isInitialized, scenes, inits,
                       nCtx, calls, destroyed>>

\* a timeout or a ramp end fires
Fire ==
    \E i \in DOMAIN timers :
        /\ CanFire(timers, i)
        /\ Commit(FireEntry(Cur(FALSE), i),
                  Last(IF timers[i].tag /\ timers[i].k = "fade" THEN "watchedFade"
                       ELSE timers[i].k, inst[timers[i].p].scene))
        /\ UNCHANGED <<audioContext, masterGain, analyzer, isInitialized, scenes, inits,
                       nCtx, calls, destroyed>>

\* ---- AudioParam automation: the gain of a buffer source's gain node ----
\* A timeline is the list of the events scheduled on the parameter, ordered by
\* their times; values are hundredths, times milliseconds.

Event(type, v, t) == [type |-> type, v |-> v, t |-> t]

\* the events scheduled for a time that is not later than t
Reached(tl, t) == Cardinality({i \in DOMAIN tl : tl[i].t <= t})

\* setValueAtTime / linearRampToValueAtTime: the event goes after those that are
\* not later
Schedule(tl, e) ==
    LET k == Reached(tl, e.t)
    IN  SubSeq(tl, 1, k) \o <<e>> \o SubSeq(tl, k + 1, Len(tl))

\* the last event reached is followed by a ramp: the value is on its way there
Ramping(tl, k) == k > 0 /\ k < Len(tl) /\ tl[k + 1].type = "ramp" /\ tl[k + 1].t > tl[k].t

\* gain.value at time t
ValueAt(tl, t) ==
    LET k == Reached(tl, t) IN
    IF k = 0 THEN 0
    ELSE IF Ramping(tl, k)
         THEN tl[k].v + ((tl[k + 1].v - tl[k].v) * (t - tl[k].t)) \div (tl[k + 1].t - tl[k].t)
         ELSE tl[k].v

\* the gain lets sound through at time t, or does so right after t
Open(tl, t) ==
    LET k == Reached(tl, t) IN
    IF k = 0 THEN FALSE
    ELSE IF Ramping(tl, k)
         THEN tl[k + 1].v > 0
              \/ tl[k].v * (tl[k + 1].t - t) + tl[k + 1].v * (t - tl[k].t) > 0
         ELSE tl[k].v > 0

\* gain.cancelScheduledValues(t): the events at t or later are removed
cancelScheduledValues(tl, t) == SelectSeq(tl, LAMBDA e : e.t < t)

\* gain.setValueAtTime(0, now); gain.linearRampToValueAtTime(1, now + fadeTime)
FadeInGain(now, fadeTime) ==
    Schedule(Schedule(<<>>, Event("set", 0, now)), Event("ramp", Unit, now + fadeTime))

\* gain.setValueAtTime(gain.value, now); gain.linearRampToValueAtTime(0, now + fadeTime)
FadeOutGain(tl, now, fadeTime) ==
    Schedule(Schedule(tl, Event("set", ValueAt(tl, now), now)),
             Event("ramp", 0, now + fadeTime))

\* ---- LoopPlayer, followed in time ----
\* L = [p (the player's fields), src (sources), tm (timeouts), now, h (history),
\*      full (the model has no room)]

\* options.crossfadeDuration || 2
DefaultCrossfade == 2000
\* the clean-up of an outgoing source runs this long after its fade
CleanupDelay == 100
\* the instants at which the application may call, besides those of the events
Grid == 1000

SourceIds == 1..MaxSources

FreeSource ==
    [st |-> "free", index |-> 0 - 1, start |-> 0, end |-> 0, gain |-> <<>>, gen |-> 0]

\* a LoopPlayer whose load() has settled with these buffers (their durations)
LoadedLoopPlayer(durations, crossfadeDuration) ==
    [buffers |-> durations,
     crossfadeDuration |-> IF crossfadeDuration = 0 THEN DefaultCrossfade
                           ELSE crossfadeDuration,
     isLoaded |-> Len(durations) > 0, isPlaying |-> FALSE,
     currentIndex |-> 0 - 1, currentSource |-> 0]

LoopTimer(k, at, src) == [k |-> k, at |-> at, src |-> src, ref |-> FALSE]

\* if (this.nextTimeout) clearTimeout(this.nextTimeout)
LoopClearTimeout(tm) == SelectSeq(tm, LAMBDA e : ~(e.k = "next" /\ e.ref))

\* this.nextTimeout = setTimeout(..., delay)
LoopSetTimeout(tm, at) ==
    Append([i \in DOMAIN tm |-> IF tm[i].k = "next" THEN [tm[i] EXCEPT !.ref = FALSE]
                                ELSE tm[i]],
           [LoopTimer("next", at, 0) EXCEPT !.ref = TRUE])

\* variant for C21: any index may be picked again
_getNextIndex_Any(p) ==
    IF Len(p.buffers) = 0 THEN {0 - 1} ELSE 0..(Len(p.buffers) - 1)

\* LoopPlayer._getNextIndex: the values it can return
_getNextIndex(p) ==
    IF Len(p.buffers) = 0 THEN {0 - 1}
    ELSE IF Len(p.buffers) = 1 THEN {0}
    ELSE {i \in 0..(Len(p.buffers) - 1) : i # p.currentIndex}

\* variant for C26: the successor is scheduled a first fade-in before the end
NextPlayTime_FadeIn(duration, crossfadeDuration) == duration - DefaultFadeIn

\* (duration - this.crossfadeDuration) * 1000
NextPlayTime(duration, crossfadeDuration) == duration - crossfadeDuration

\* LoopPlayer._playNext, with the index _getNextIndex returned
_playNext(L, isFirst, nextIndex) ==
    LET free == {s \in SourceIds : L.src[s].st = "free"}
        s == MinOf(free)
        fadeTime == IF isFirst THEN DefaultFadeIn ELSE L.p.crossfadeDuration
        duration == L.p.buffers[nextIndex + 1]
        old == L.p.currentSource
        src1 == IF old # 0
                THEN [L.src EXCEPT ![old].gain = FadeOutGain(@, L.now, fadeTime)]
                ELSE L.src
        tm1 == IF old # 0
               THEN Append(L.tm, LoopTimer("cleanup", L.now + fadeTime + CleanupDelay, old))
               ELSE L.tm
    IN  IF ~L.p.isPlaying \/ nextIndex = 0 - 1 THEN L
        ELSE IF free = {} THEN [L EXCEPT !.full = TRUE]
        ELSE [L EXCEPT
                !.p.currentIndex = nextIndex,
                !.p.currentSource = s,
                !.src = [src1 EXCEPT ![s] =
                            [st |-> "playing", index |-> nextIndex, start |-> L.now,
                             end |-> L.now + duration,
                             gain |-> FadeInGain(L.now, fadeTime),
                             gen |-> L.h.made + 1]],
                !.tm = LoopSetTimeout(LoopClearTimeout(tm1),
                           L.now + Max(NextPlayTime(duration, L.p.crossfadeDuration),
                                       MinNextDelay)),
                !.h = [L.h EXCEPT !.made = @ + 1, !.picks = @ + 1,
                                  !.prev = L.h.cur, !.cur = nextIndex,
                                  !.by = IF isFirst THEN "start" ELSE "next",
                                  !.from = IF old = 0 THEN 0 ELSE L.src[old].gen]]

\* LoopPlayer.start
LoopStart(L, nextIndex) ==
    IF ~L.p.isLoaded \/ L.p.isPlaying THEN L
    ELSE _playNext([L EXCEPT !.p.isPlaying = TRUE], TRUE, nextIndex)

\* LoopPlayer.stop(fadeTime), up to its return or its await
LoopStop(L, fadeTime) ==
    LET cur == L.p.currentSource
        L1 == [L EXCEPT !.p.isPlaying = FALSE, !.tm = LoopClearTimeout(L.tm)]
    IN  IF ~L.p.isPlaying THEN L
        ELSE IF cur = 0 THEN L1
        ELSE [L1 EXCEPT !.src[cur].gain = FadeOutGain(@, L.now, fadeTime),
                        !.tm = Append(L1.tm, LoopTimer("stop", L.now + fadeTime, 0))]

\* LoopPlayer.stop after its await: the source the player holds now is stopped and
\* disconnected (on null the TypeError is caught), the fields are cleared
LoopStopFinish(L) ==
    LET cur == L.p.currentSource
    IN  IF cur = 0 THEN L
        ELSE [L EXCEPT !.src[cur].st = "stopped", !.p.currentSource = 0]

\* LoopPlayer.dispose: stop(0), then the buffers go
LoopDispose(L) ==
    LET L1 == LoopStop(L, 0)
    IN  [L1 EXCEPT !.p.buffers = <<>>, !.p.isLoaded = FALSE]

\* the callback of a timeout of the player
LoopCallback(L, e, nextIndex) ==
    CASE e.k = "next" -> IF L.p.isPlaying THEN _playNext(L, FALSE, nextIndex) ELSE L
      [] e.k = "cleanup" -> [L EXCEPT !.src[e.src].st = "stopped"]
      [] OTHER -> LoopStopFinish(L)

\* a source that was stopped and disconnected is released
Release(src) == [s \in SourceIds |-> IF src[s].st = "stopped" THEN FreeSource ELSE src[s]]

\* the source is heard at time t: started, not at its natural end, gain open
Sounding(r, t) == r.st = "playing" /\ r.start <= t /\ t < r.end /\ Open(r.gain, t)

LoopCur ==
    [p |-> loopPlayer, src |-> sources, tm |-> pending, now |-> clock,
     h |-> [loopHist EXCEPT !.from = 0], full |-> FALSE]

LoopCommit(L, op) ==
    /\ ~L.full
    /\ loopPlayer' = L.p
    /\ sources' = Release(L.src)
    /\ pending' = L.tm
    /\ loopHist' = [L.h EXCEPT !.op = op]
    /\ UNCHANGED <<mainVars, windLayer, loaderVars, noise, synth>>

LoopCalled(L) == [L EXCEPT !.h.calls = @ + 1]

\* player.start() called
LoopPlayerStart ==
    /\ loopHist.calls < MaxLoopCalls
    /\ \E nextIndex \in _getNextIndex(loopPlayer) :
           LoopCommit(LoopStart(LoopCalled(LoopCur), nextIndex), "start")
    /\ UNCHANGED clock

\* what the callers pass to stop: 0 (dispose, play) and the default
StopFades == {0, DefaultFadeIn}

\* player.stop(fadeTime) called
LoopPlayerStop ==
    /\ loopHist.calls < MaxLoopCalls
    /\ \E fadeTime \in StopFades :
           LoopCommit(LoopStop(LoopCalled(LoopCur), fadeTime), "stop")
    /\ UNCHANGED clock

\* player.dispose() called
LoopPlayerDispose ==
    /\ loopHist.calls < MaxLoopCalls
    /\ LoopCommit(LoopDispose(LoopCalled(LoopCur)), "dispose")
    /\ UNCHANGED clock

Due(tm, t) == {i \in DOMAIN tm : tm[i].at <= t}

\* the timeout that is due first runs
LoopFire ==
    /\ Due(pending, clock) # {}
    /\ LET i == MinOf(Due(pending, clock))
           e == pending[i]
           L == [LoopCur EXCEPT !.tm = RemoveAt(pending, i)]
       IN  \E nextIndex \in (IF e.k = "next" /\ loopPlayer.isPlaying
                             THEN _getNextIndex(loopPlayer) ELSE {0 - 1}) :
               LoopCommit(LoopCallback(L, e, nextIndex), e.k)
    /\ UNCHANGED clock

\* the instants after t at which something of the player changes
Instants(t) ==
    {pending[i].at : i \in DOMAIN pending}
    \cup {sources[s].end : s \in {x \in SourceIds : sources[x].st = "playing"}}
    \cup UNION {{sources[s].gain[i].t : i \in DOMAIN sources[s].gain} :
                   s \in {x \in SourceIds : sources[x].st = "playing"}}
    \cup {((t \div Grid) + 1) * Grid}

\* time passes, up to the next such instant; no timeout is overdue
Elapse ==
    LET next == MinOf({x \in Instants(clock) : x > clock})
    IN  /\ Due(pending, clock) = {}
        /\ next <= MaxTime
        /\ clock' = next
        /\ loopHist' = [loopHist EXCEPT !.op = "elapse", !.from = 0]
        /\ UNCHANGED <<loopPlayer, sources, pending>>
        /\ UNCHANGED <<mainVars, windLayer, loaderVars, noise, synth>>

\* what the history starts as
NoLoopHist ==
    [calls |-> 0, made |-> 0, picks |-> 0, prev |-> 0 - 1, cur |-> 0 - 1,
     by |-> "none", from |-> 0, op |-> "new"]

\* the loop part at rest
LoopIdle ==
    /\ clock = 0
    /\ loopPlayer = LoadedLoopPlayer(<<>>, 0)
    /\ sources = [s \in SourceIds |-> FreeSource]
    /\ pending = <<>>
    /\ loopHist = NoLoopHist

\* ---- WindPlayer: the recording layer ----
\* recordingBuffers is the number of recordings that decoded

\* a WindPlayer whose load() has settled
LoadedWindLayer(n) ==
    [recordingBuffers |-> n, isLoaded |-> TRUE, isPlaying |-> FALSE,
     _currentBufferIndex |-> 0 - 1, crossfadeTimer |-> FALSE,
     picks |-> 0, prev |-> 0 - 1, cur |-> 0 - 1, by |-> "none", op |-> "new"]

\* WindPlayer._getRandomBufferIndex: the values it can return
_getRandomBufferIndex(w) ==
    IF w.recordingBuffers = 1 THEN {0}
    ELSE {i \in 0..(w.recordingBuffers - 1) : i # w._currentBufferIndex}

\* the pick is made, the source started and the next crossfade scheduled
\* (_startRecordingLayer and _performCrossfade, from the pick on)
RecordingPicked(w, index, by) ==
    [w EXCEPT !._currentBufferIndex = index, !.crossfadeTimer = TRUE,
              !.picks = @ + 1, !.prev = w.cur, !.cur = index, !.by = by]

WindCommit(w, op) ==
    /\ windLayer' = [w EXCEPT !.op = op]
    /\ UNCHANGED <<mainVars, loaderVars, noise, synth, clock, loopPlayer, sources, pending>>

\* WindPlayer.start called: the recording layer starts when there are recordings
WindLayerStart ==
    /\ loopHist.calls < MaxLoopCalls
    /\ loopHist' = [loopHist EXCEPT !.calls = @ + 1]
    /\ LET w == windLayer IN
       IF ~w.isLoaded \/ w.isPlaying THEN WindCommit(w, "start")
       ELSE IF w.recordingBuffers = 0
            THEN WindCommit([w EXCEPT !.isPlaying = TRUE], "start")
       ELSE \E index \in _getRandomBufferIndex(w) :
                WindCommit(RecordingPicked([w EXCEPT !.isPlaying = TRUE], index, "start"),
                           "start")

\* WindPlayer.stop called: the crossfade timer is cleared
WindLayerStop ==
    /\ loopHist.calls < MaxLoopCalls
    /\ loopHist' = [loopHist EXCEPT !.calls = @ + 1]
    /\ LET w == windLayer IN
       IF ~w.isPlaying THEN WindCommit(w, "stop")
       ELSE WindCommit([w EXCEPT !.isPlaying = FALSE, !.crossfadeTimer = FALSE], "stop")

\* the crossfade timer fires: _performCrossfade
WindLayerCrossfade ==
    /\ windLayer.crossfadeTimer
    /\ windLayer.picks < MaxPicks
    /\ UNCHANGED loopHist
    /\ LET w == [windLayer EXCEPT !.crossfadeTimer = FALSE] IN
       IF ~w.isPlaying \/ w.recordingBuffers = 0 THEN WindCommit(w, "crossfade")
       ELSE \E index \in _getRandomBufferIndex(w) :
                WindCommit(RecordingPicked(w, index, "crossfade"), "crossfade")

\* the wind part at rest
WindIdle == windLayer = LoadedWindLayer(0)

\* ---- SampleLoader ----
\* LS = [B (this.buffers), G (this.loading), F (fetches in flight), W (load() calls
\*       suspended on a fetch), h (history), full (the model has no room)]
\* A buffer is named by the fetch that produced it.

\* the names the application loads, with the base name and the number each was
\* written from
SampleNames == {"drop_1", "drop_3", "cup_1"}
BaseOf(name) == IF name = "cup_1" THEN "cup" ELSE "drop"
NumberOf(name) == IF name = "drop_3" THEN 3 ELSE 1

FetchIds == 1..MaxFetches
NoFetch == ""

\* Map.has
Has(map, name) == name \in DOMAIN map /\ map[name] # 0

\* a load() call suspended on a fetch; own: it is the call that issued the fetch;
\* group: the loadAll() call it was made by, 0 = none
Waiting(call, name, fetch, own, group) ==
    [call |-> call, name |-> name, fetch |-> fetch, own |-> own, group |-> group]

\* how a load() call ended
Settled(call, name, outcome, buffer) ==
    [call |-> call, name |-> name, outcome |-> outcome, buffer |-> buffer]

\* variant for C22: the table of loads in flight is not consulted
load_NoJoin(LS, call, name, group) ==
    LET id == LS.h.fetched + 1 IN
    IF Has(LS.B, name)
    THEN [LS EXCEPT !.h.settled = @ \cup {Settled(call, name, "ok", LS.B[name])}]
    ELSE IF id > MaxFetches THEN [LS EXCEPT !.full = TRUE]
    ELSE [LS EXCEPT !.F[id] = name, !.G[name] = id,
                    !.W = @ \cup {Waiting(call, name, id, TRUE, group)},
                    !.h.fetched = id, !.h.issued = @ \cup {name}]

\* SampleLoader.load(name, url), up to its return or its await
load(LS, call, name, group) ==
    LET id == LS.h.fetched + 1 IN
    IF Has(LS.B, name)
    THEN [LS EXCEPT !.h.settled = @ \cup {Settled(call, name, "ok", LS.B[name])}]
    ELSE IF Has(LS.G, name)
    THEN [LS EXCEPT !.W = @ \cup {Waiting(call, name, LS.G[name], FALSE, group)}]
    ELSE IF id > MaxFetches THEN [LS EXCEPT !.full = TRUE]
    ELSE [LS EXCEPT !.F[id] = name, !.G[name] = id,
                    !.W = @ \cup {Waiting(call, name, id, TRUE, group)},
                    !.h.fetched = id, !.h.issued = @ \cup {name}]

\* entries.map(([name, url]) => this.load(name, url))
RECURSIVE LoadEach(_, _, _, _)
LoadEach(LS, call, names, k) ==
    IF k > Len(names) \/ LS.full THEN LS
    ELSE LoadEach(load(LS, call, names[k], call), call, names, k + 1)

\* the loadAll() calls of this task whose loads have all settled resolve with
\* this.buffers (Promise.allSettled never rejects)
AllSettled(LS, groups) ==
    [LS EXCEPT !.h.resolved =
        {[call |-> g, buffers |-> {n \in SampleNames : Has(LS.B, n)}] :
             g \in {x \in groups : \A w \in LS.W : w.group # x}}]

\* load after "await loadPromise" returned the buffer
LoadSucceeded(LS, name, id) == [LS EXCEPT !.B[name] = id, !.G[name] = 0]

\* variant for C23: the catch block leaves the entry of the failed load in place
LoadFailed_Poisoned(LS, name) == LS

\* load's catch block
LoadFailed(LS, name) == [LS EXCEPT !.G[name] = 0]

\* the fetch id settles: the call that issued it goes on after its await, and every
\* call that was handed its promise gets the same outcome
FetchSettled(LS, id, ok) ==
    LET name == LS.F[id]
        woken == {w \in LS.W : w.fetch = id}
        LS1 == [LS EXCEPT !.F[id] = NoFetch, !.W = LS.W \ woken,
                          !.h.settled = {Settled(w.call, w.name,
                                                 IF ok THEN "ok" ELSE "rejected",
                                                 IF ok THEN id ELSE 0) : w \in woken},
                          !.h.failed = IF ok THEN @ ELSE @ \cup {name}]
        LS2 == IF \E w \in woken : w.own
               THEN IF ok THEN LoadSucceeded(LS1, name, id) ELSE LoadFailed(LS1, name)
               ELSE LS1
    IN  AllSettled(LS2, {w.group : w \in woken} \ {0})

\* variant for C24: the cache is not asked
getRandomVariant_Unchecked(B, baseName, maxVariants) ==
    LET available == {baseName \o "_" \o ToString(i) : i \in 1..maxVariants}
    IN  IF available = {} THEN {"null"} ELSE available

\* SampleLoader.getRandomVariant: the values it can return
getRandomVariant(B, baseName, maxVariants) ==
    LET available == {name \in {baseName \o "_" \o ToString(i) : i \in 1..maxVariants} :
                         Has(B, name)}
    IN  IF available = {} THEN {"null"} ELSE available

NoLoaderHist ==
    [calls |-> 0, fetched |-> 0, op |-> "new", name |-> "null", issued |-> {},
     settled |-> {}, resolved |-> {}, failed |-> {}, baseName |-> "null",
     maxVariants |-> 0]

LoaderCur ==
    [B |-> sampleBuffers, G |-> sampleLoading, F |-> fetches, W |-> waiting,
     h |-> [loaderHist EXCEPT !.issued = {}, !.settled = {}, !.resolved = {},
                              !.baseName = "null", !.maxVariants = 0],
     full |-> FALSE]

LoaderCommit(LS, op, name) ==
    /\ ~LS.full
    /\ sampleBuffers' = LS.B
    /\ sampleLoading' = LS.G
    /\ fetches' = LS.F
    /\ waiting' = LS.W
    /\ loaderHist' = [LS.h EXCEPT !.op = op, !.name = name]
    /\ UNCHANGED <<mainVars, loopVars, windLayer, noise, synth>>

LoaderCalled(LS) == [LS EXCEPT !.h.calls = @ + 1]

\* loader.load(name, url) called
SampleLoad ==
    \E name \in SampleNames :
        /\ loaderHist.calls < MaxLoads
        /\ LoaderCommit(load(LoaderCalled(LoaderCur), loaderHist.calls + 1, name, 0),
                        "load", name)

\* the sample maps the application passes to loadAll
LoadAllInputs == {<<"drop_1", "drop_3">>, <<"cup_1", "drop_1">>}

\* loader.loadAll(samples) called
SampleLoadAll ==
    \E names \in LoadAllInputs :
        /\ loaderHist.calls < MaxLoads
        /\ LET call == loaderHist.calls + 1
               LS == LoadEach(LoaderCalled(LoaderCur), call, names, 1)
           IN  LoaderCommit(AllSettled(LS, {call}), "loadAll", "null")

\* a fetch with its decode ends, well or not
FetchDone ==
    \E id \in FetchIds, ok \in BOOLEAN :
        /\ fetches[id] # NoFetch
        /\ LoaderCommit(FetchSettled(LoaderCur, id, ok),
                        IF ok THEN "fetched" ELSE "fetchFailed", fetches[id])

\* what the synthesizers pass to getRandomVariant
BaseNames == {"drop", "cup", "leaf"}
VariantCounts == {0 - 1, 0, 1, 2, 3}

\* loader.getRandomVariant(baseName, maxVariants) called
SampleGetRandomVariant ==
    \E baseName \in BaseNames, maxVariants \in VariantCounts :
        \E result \in getRandomVariant(sampleBuffers, baseName, maxVariants) :
            /\ loaderHist.op # "variant"
            /\ LoaderCommit([LoaderCur EXCEPT !.h.baseName = baseName,
                                              !.h.maxVariants = maxVariants],
                            "variant", result)

\* SampleLoader.clear: both maps are emptied; the fetches in flight and the calls
\* suspended on them go on
clear(LS) ==
    [LS EXCEPT !.B = [n \in SampleNames |-> 0], !.G = [n \in SampleNames |-> 0]]

\* loader.clear() called
SampleClear ==
    /\ loaderHist.calls < MaxLoads
    /\ LoaderCommit(clear(LoaderCalled(LoaderCur)), "clear", "null")

\* new SampleLoader(context)
LoaderNew ==
    /\ sampleBuffers = [n \in SampleNames |-> 0]
    /\ sampleLoading = [n \in SampleNames |-> 0]
    /\ fetches = [id \in FetchIds |-> NoFetch]
    /\ waiting = {}
    /\ loaderHist = NoLoaderHist

\* the loader part at rest
LoaderIdle == LoaderNew

\* ---- NoiseGenerator ----
\* Samples are thousandths (NoiseUnit = 1.0), coefficients hundred-thousandths;
\* products are cut toward zero, so a magnitude is never overstated by the cut.

NoiseUnit == 1000

Times(coefficient, value) ==
    IF coefficient * value >= 0
    THEN (coefficient * value) \div 100000
    ELSE 0 - ((0 - coefficient * value) \div 100000)

\* Math.random() * 2 - 1: the draws followed (Math.random() < 1)
WhiteDraws == {0 - NoiseUnit, 0, NoiseUnit - 1}

\* a buffer being filled: b and lastOut are the loop's running values, sample is
\* data[filled - 1]
NoiseBuffer(kind) ==
    [kind |-> kind, filled |-> 0, white |-> 0, flips |-> 0,
     b |-> <<0, 0, 0, 0, 0, 0, 0>>, lastOut |-> 0, sample |-> 0]

\* the draws of one buffer: any first draw, then at most MaxFlips changes
NextDraws(nb) ==
    IF nb.filled = 0 \/ nb.flips < MaxFlips THEN WhiteDraws ELSE {nb.white}

Drawn(nb, white) ==
    [nb EXCEPT !.filled = @ + 1, !.white = white,
               !.flips = IF nb.filled > 0 /\ white # nb.white THEN @ + 1 ELSE @]

\* createWhiteNoise: one pass of the loop
WhiteStep(nb, white) == [Drawn(nb, white) EXCEPT !.sample = white]

\* createPinkNoise: one pass of the loop
PinkStep(nb, white) ==
    LET b0 == Times(99886, nb.b[1]) + Times(5552, white)
        b1 == Times(99332, nb.b[2]) + Times(7508, white)
        b2 == Times(96900, nb.b[3]) + Times(15385, white)
        b3 == Times(86650, nb.b[4]) + Times(31049, white)
        b4 == Times(55000, nb.b[5]) + Times(53295, white)
        b5 == Times(0 - 76160, nb.b[6]) - Times(1690, white)
        pink == b0 + b1 + b2 + b3 + b4 + b5 + nb.b[7] + Times(53620, white)
        b6 == Times(11593, white)
    IN  [Drawn(nb, white) EXCEPT !.b = <<b0, b1, b2, b3, b4, b5, b6>>,
                                 !.sample = Times(11000, pink)]

\* createBrownNoise: one pass of the loop
BrownStep(nb, white) ==
    LET sum == 100 * nb.lastOut + 2 * white
        lastOut == IF sum >= 0 THEN sum \div 102 ELSE 0 - ((0 - sum) \div 102)
    IN  [Drawn(nb, white) EXCEPT !.lastOut = lastOut,
                                 !.sample = Times(350000, lastOut)]

NoiseCommit(nb) ==
    /\ noise' = nb
    /\ UNCHANGED <<mainVars, loopVars, windLayer, loaderVars, synth>>

WhiteSample ==
    \E white \in NextDraws(noise) :
        /\ noise.kind = "white" /\ noise.filled < MaxSamples
        /\ NoiseCommit(WhiteStep(noise, white))

PinkSample ==
    \E white \in NextDraws(noise) :
        /\ noise.kind = "pink" /\ noise.filled < MaxSamples
        /\ NoiseCommit(PinkStep(noise, white))

BrownSample ==
    \E white \in NextDraws(noise) :
        /\ noise.kind = "brown" /\ noise.filled < MaxSamples
        /\ NoiseCommit(BrownStep(noise, white))

\* no buffer is being filled
NoiseIdle == noise = NoiseBuffer("none")

\* ---- synthesizers (RainSynth, CafeSynth, WindSynth), followed in time ----
\* Y = [s (the synthesizer's fields), tm (timeouts, in creation order), cache (the
\*      buffers of the sample loader), now, h (history)]
\* Times are milliseconds, gains hundredths.

SynthKinds == {"rain", "cafe", "wind"}

\* BaseSynth.defaultFadeTime
DefaultFadeTime == 1500
\* the instants at which the application may call, besides those of the timeouts
SynthGrid == 750

\* the names a sample loader may hold
SynthSampleNames == {"raindrop_2", "raindrop_6", "spoon_stir"}

\* the names _checkSamplesAvailable asks the loader for
ExpectedSamples(kind) ==
    CASE kind = "rain" -> {"raindrop_" \o ToString(i) : i \in 1..5}
      [] kind = "cafe" -> {"cup_clink_1", "cup_clink_2", "cup_clink_3", "spoon_stir"}
      [] OTHER -> {}

\* the delay of the first transient event after start(), and between events
\* (values from the ranges the code draws from)
FirstDelays(kind) ==
    CASE kind = "rain" -> {0}
      [] kind = "cafe" -> {2000, 3000}
      [] OTHER -> {3000, 3500}

NextDelays(kind) ==
    CASE kind = "rain" -> {125, 250}
      [] kind = "cafe" -> {3000}
      [] OTHER -> {5000}

\* new RainSynth / CafeSynth / WindSynth (context, { sampleLoader })
NewSynth(kind, sampleLoader) ==
    [kind |-> kind, isPlaying |-> FALSE, noiseGen |-> FALSE, useSamples |-> FALSE,
     sampleLoader |-> sampleLoader, gain |-> <<Event("set", Unit, 0)>>,
     disposed |-> FALSE]

\* a pending timeout: k = "event" (dropTimer / clinkTimer / gustTimer; ref: the field
\* names it) or "fade" (the one fadeOut resolves on; since, dur: when it was set and
\* the duration passed)
SynthTimer(k, at, ref, since, dur) ==
    [k |-> k, at |-> at, ref |-> ref, since |-> since, dur |-> dur]

\* this.xTimer = setTimeout(generate, delay)
SynthSetTimeout(Y, delay) ==
    [Y EXCEPT !.tm = Append([i \in DOMAIN Y.tm |-> [Y.tm[i] EXCEPT !.ref = FALSE]],
                            SynthTimer("event", Y.now + delay, TRUE, Y.now, delay))]

\* variant for C32: the probe does not ask the loader
_checkSamplesAvailable_Always(Y) ==
    [Y EXCEPT !.s.useSamples = Y.s.sampleLoader, !.h.probed = TRUE]

\* _checkSamplesAvailable
_checkSamplesAvailable(Y) ==
    [Y EXCEPT !.s.useSamples =
                  Y.s.sampleLoader /\ \E n \in ExpectedSamples(Y.s.kind) : Has(Y.cache, n),
              !.h.probed = TRUE]

\* _playSynthDrop / _playSynthClink: one synthesized one-shot
PlaySynth(Y) == [Y EXCEPT !.h.shots = @ + 1, !.h.shot = "synth"]

\* SampleLoader.play(name, options): a one-shot from the cached buffer, or null
PlaySample(Y, name) ==
    IF Has(Y.cache, name)
    THEN [Y EXCEPT !.h.shots = @ + 1, !.h.shot = "sample", !.h.name = name]
    ELSE Y

\* _triggerGust: ramps on the filter and the gains
_triggerGust(Y) == [Y EXCEPT !.h.shots = @ + 1, !.h.shot = "gust"]

\* _createDrop / _createClink, and the draw before _triggerGust: the states they
\* can leave
CreateShot(Y) ==
    CASE Y.s.kind = "rain" ->
            IF Y.s.useSamples
            THEN {IF name = "null" THEN PlaySynth(Y) ELSE PlaySample(Y, name) :
                      name \in getRandomVariant(Y.cache, "raindrop", 5)}
            ELSE {PlaySynth(Y)}
      [] Y.s.kind = "cafe" ->
            LET sampleNames == {n \in ExpectedSamples("cafe") : Has(Y.cache, n)}
            IN  IF Y.s.useSamples /\ sampleNames # {}
                THEN {PlaySample(Y, name) : name \in sampleNames}
                ELSE {PlaySynth(Y)}
      [] OTHER -> {_triggerGust(Y), Y}

\* generateDrop / generateClink / generateGust: the callback of the timeout
Generate(Y) ==
    IF ~Y.s.isPlaying THEN {Y}
    ELSE {SynthSetTimeout(Z, delay) : Z \in CreateShot(Y), delay \in NextDelays(Y.s.kind)}

\* _startDrops (the first drop at once) / _startClinks / _startGusts
StartEvents(Y) ==
    IF Y.s.kind = "rain" THEN Generate(Y)
    ELSE {SynthSetTimeout(Y, delay) : delay \in FirstDelays(Y.s.kind)}

\* _stopDrops / _stopClinks / _stopGusts: clearTimeout of the timeout the field names
StopEvents(Y) ==
    [Y EXCEPT !.tm = SelectSeq(Y.tm, LAMBDA e : ~(e.k = "event" /\ e.ref))]

\* BaseSynth.fadeIn(duration = defaultFadeTime, targetVolume = 1)
fadeIn(Y, duration) ==
    [Y EXCEPT !.s.gain =
        Schedule(Schedule(cancelScheduledValues(Y.s.gain, Y.now),
                          Event("set", 0, Y.now)),
                 Event("ramp", Unit, Y.now + duration))]

\* BaseSynth.fadeOut(duration): the ramp, and the timeout its promise resolves on
fadeOut(Y, duration) ==
    [Y EXCEPT !.s.gain =
        Schedule(Schedule(cancelScheduledValues(Y.s.gain, Y.now),
                          Event("set", ValueAt(Y.s.gain, Y.now), Y.now)),
                 Event("ramp", 0, Y.now + duration)),
              !.tm = Append(Y.tm, SynthTimer("fade", Y.now + duration, FALSE,
                                             Y.now, duration))]

\* start()
SynthStart(Y) ==
    IF Y.s.isPlaying THEN {Y}
    ELSE LET Y1 == [Y EXCEPT !.s.isPlaying = TRUE, !.h.ended = FALSE]
             Y2 == IF Y.s.kind = "wind" THEN Y1 ELSE _checkSamplesAvailable(Y1)
             Y3 == [Y2 EXCEPT !.s.noiseGen = TRUE, !.h.atStart = Y2.s.useSamples]
         IN  {fadeIn(Z, DefaultFadeTime) : Z \in StartEvents(Y3)}

\* stop(fadeTime), up to its return or its await of fadeOut
SynthStop(Y, fadeTime) ==
    IF ~Y.s.isPlaying THEN Y ELSE fadeOut(StopEvents(Y), fadeTime)

\* stop after "await this.fadeOut(fadeTime)": the noise generator (and the LFOs) go,
\* isPlaying = false
SynthStopFinish(Y, e) ==
    [Y EXCEPT !.s.noiseGen = FALSE, !.s.isPlaying = FALSE,
              !.h.cut = Y.s.noiseGen, !.h.elapsed = Y.now - e.since, !.h.dur = e.dur,
              !.h.level = ValueAt(Y.s.gain, Y.now)]

\* dispose(): stop(0), then the nodes are disconnected
SynthDispose(Y) ==
    [SynthStop(Y, 0) EXCEPT !.s.disposed = TRUE, !.h.ended = TRUE]

\* setSampleLoader(loader)
setSampleLoader(Y, loader) ==
    IF Y.s.kind = "wind" THEN Y
    ELSE _checkSamplesAvailable([Y EXCEPT !.s.sampleLoader = loader])

\* what the history starts as; ended: dispose() was called and start() did not start
\* the synthesizer since; probed: the step ran _checkSamplesAvailable; atStart: what
\* useSamples was set to by the last start() that ran
NoSynthHist ==
    [calls |-> 0, op |-> "new", shots |-> 0, shot |-> "none", name |-> "null",
     ended |-> FALSE, cut |-> FALSE, elapsed |-> 0, dur |-> 0, level |-> 0,
     probed |-> FALSE, atStart |-> FALSE]

NoCache == [n \in SynthSampleNames |-> 0]

SynthCur ==
    [synth EXCEPT !.h.shots = 0, !.h.shot = "none", !.h.name = "null", !.h.cut = FALSE,
                  !.h.elapsed = 0, !.h.dur = 0, !.h.level = 0, !.h.probed = FALSE]

\* the events of a timeline that still bear on its value from t on: the last one
\* reached and the later ones; a timeline at rest is written as one event
Settle(tl, t) ==
    LET k == Reached(tl, t) IN
    IF k = Len(tl) THEN <<Event("set", ValueAt(tl, t), 0)>>
    ELSE SubSeq(tl, Max(1, k), Len(tl))

SynthCommit(Y, op) ==
    /\ synth' = [Y EXCEPT !.h.op = op, !.s.gain = Settle(Y.s.gain, Y.now)]
    /\ UNCHANGED <<mainVars, loopVars, windLayer, loaderVars, noise>>

SynthCalled(Y) == [Y EXCEPT !.h.calls = @ + 1]

\* synth.start() called
SynthStartCall ==
    /\ synth.h.calls < MaxSynthCalls
    /\ \E Z \in SynthStart(SynthCalled(SynthCur)) : SynthCommit(Z, "start")

\* synth.stop(fadeTime) called
SynthStopCall ==
    /\ synth.h.calls < MaxSynthCalls
    /\ \E fadeTime \in {0, DefaultFadeTime} :
           SynthCommit(SynthStop(SynthCalled(SynthCur), fadeTime), "stop")

\* synth.dispose() called
SynthDisposeCall ==
    /\ synth.h.calls < MaxSynthCalls
    /\ SynthCommit(SynthDispose(SynthCalled(SynthCur)), "dispose")

\* synth.setSampleLoader(loader) called; loader is null or the loader of this model
SynthSetSampleLoader ==
    /\ synth.h.calls < MaxSynthCalls
    /\ \E loader \in BOOLEAN :
           SynthCommit(setSampleLoader(SynthCalled(SynthCur), loader), "setSampleLoader")

\* a load() of the loader ends and caches the name
SynthSampleCached ==
    /\ synth.h.calls < MaxSynthCalls
    /\ \E n \in SynthSampleNames :
           /\ ~Has(synth.cache, n)
           /\ SynthCommit([SynthCalled(SynthCur) EXCEPT !.cache[n] = 1], "cached")

\* loader.clear()
SynthCacheCleared ==
    /\ synth.h.calls < MaxSynthCalls
    /\ synth.cache # NoCache
    /\ SynthCommit([SynthCalled(SynthCur) EXCEPT !.cache = NoCache], "cleared")

\* the timeout that is due first runs
SynthFire ==
    /\ Due(synth.tm, synth.now) # {}
    /\ LET i == MinOf(Due(synth.tm, synth.now))
           e == synth.tm[i]
           Y == [SynthCur EXCEPT !.tm = RemoveAt(synth.tm, i)]
       IN  IF e.k = "fade" THEN SynthCommit(SynthStopFinish(Y, e), "faded")
           ELSE \E Z \in Generate(Y) : SynthCommit(Z, "event")

\* time passes, up to the next timeout or the next instant of the grid; no timeout
\* is overdue
SynthElapse ==
    LET next == MinOf({synth.tm[i].at : i \in DOMAIN synth.tm}
                      \cup {((synth.now \div SynthGrid) + 1) * SynthGrid})
    IN  /\ Due(synth.tm, synth.now) = {}
        /\ next <= MaxSynthTime
        /\ SynthCommit([SynthCur EXCEPT !.now = next], "elapse")

\* a synthesizer just constructed
SynthNew(kinds, loaders, caches) ==
    \E kind \in kinds, loader \in loaders, cache \in caches :
        synth = [s |-> NewSynth(kind, loader), tm |-> <<>>, cache |-> cache, now |-> 0,
                 h |-> NoSynthHist]

\* the synthesizer part at rest
SynthIdle == SynthNew({"none"}, {FALSE}, {NoCache})

\* ---- Scene Players called directly ----

\* the instance p is called with the world of the state and the result is written back
WithWorld(S, W, p) == [S EXCEPT !.I = W.I, !.T = W.T, !.arg = p]

\* player.start() called on the instance p
StartPlayer ==
    \E p \in InstIds :
        /\ inst[p].st # "free"
        /\ Called
        /\ UNCHANGED scenes
        /\ Commit(WithWorld(Cur(TRUE), PlayerStart(World(Cur(TRUE)), p), p),
                  Last("playerStart", inst[p].scene))

\* player.stop(fadeTime) called on the instance p
StopPlayer ==
    \E p \in InstIds, fadeTime \in StopFades :
        /\ inst[p].st # "free"
        /\ Called
        /\ UNCHANGED scenes
        /\ Commit(WithWorld(Cur(TRUE),
                         PlayerStop(World(Cur(TRUE)), p, fadeTime, FALSE, FALSE, FALSE),
                         p),
                  Last("playerStop", inst[p].scene))

\* player.dispose() called on the instance p
DisposePlayer ==
    \E p \in InstIds :
        /\ inst[p].st # "free"
        /\ Called
        /\ UNCHANGED scenes
        /\ Commit(WithWorld(Cur(TRUE), PlayerDispose(World(Cur(TRUE)), p), p),
                  Last("playerDispose", inst[p].scene))

\* ---- specification ----

\* new AudioEngine({ scenes }): options.scenes, when given, replaces DEFAULT_SCENES
\* (the trailing "...options" of the constructor overrides the merged "scenes");
\* here the application configures "rain" and "cafe" and leaves "wind" out
EngineConfigs == {[DEFAULT_SCENES EXCEPT !["wind"] = "none"]}

\* the parts that are followed on their own, at rest
PartsIdle == LoopIdle /\ WindIdle /\ LoaderIdle /\ NoiseIdle /\ SynthIdle

\* new AudioEngine(options)
EngineNew(cfgs, cap, vols) ==
    /\ audioContext = 0
    /\ masterGain = 0
    /\ analyzer = 0
    /\ players = [s \in SceneIds |-> 0]
    /\ currentPlayer = 0
    /\ currentScene = NoScene
    /\ isInitialized = FALSE
    /\ isPlaying = FALSE
    /\ scenes \in cfgs
    /\ inst = [i \in InstIds |-> FreeInst]
    /\ timers = <<>>
    /\ inits = {}
    /\ nCtx = 0
    /\ ctxCap = cap
    /\ defaultVolume \in vols
    /\ volume = GainParam(0)
    /\ loops = 0
    /\ animationFrameId = FALSE
    /\ analysis = NewAnalyzer
    /\ snapshot = NoSnapshot
    /\ frames = 0
    /\ updates = 0
    /\ threw = FALSE
    /\ arg = 0
    /\ hookScene = "rain"
    /\ hookPlaying = FALSE
    /\ isSwitchingRef = FALSE
    /\ calls = 0
    /\ destroyed = FALSE
    /\ rejected = FALSE
    /\ last = Last("new", NoScene)

InitWith(cfgs, cap, vols) == EngineNew(cfgs, cap, vols) /\ PartsIdle

\* the engine driven through its public methods
Init == InitWith(EngineConfigs, MaxCtx, {DefaultVolume})

Next ==
    \/ init
    \/ InitResume
    \/ AppPlay
    \/ AppSwitchScene
    \/ AppStop
    \/ addScene
    \/ destroy
    \/ LoadDone
    \/ Fire

Spec == Init /\ [][Next]_vars

\* the engine driven by the useStay hook (new AudioEngine({ defaultVolume }))
InitHook == InitWith({DEFAULT_SCENES}, MaxCtx, {DefaultVolume})

NextHook ==
    \/ useStay_switchScene
    \/ togglePlay
    \/ destroy
    \/ InitResume
    \/ LoadDone
    \/ Fire

SpecHook == InitHook /\ [][NextHook]_vars

\* the master volume: init, destroy and setVolume, with time passing between them
InitVolume == InitWith(EngineConfigs, MaxCtx, {0, DefaultVolume, Unit})

NextVolume ==
    \/ init
    \/ InitResume
    \/ destroy
    \/ AppSetVolume
    \/ VolumeTick

SpecVolume == InitVolume /\ [][NextVolume]_vars

\* the analyzer: an engine with one scene, render ticks, and an application that
\* reads the analysis data
RainOnly == [s \in SceneIds |-> IF s = "rain" THEN "loop" ELSE "none"]

InitAnalyzer == InitWith({RainOnly}, MaxCtx, {DefaultVolume})

NextAnalyzer ==
    \/ init
    \/ InitResume
    \/ AppPlay
    \/ AppStop
    \/ destroy
    \/ LoadDone
    \/ Fire
    \/ Frame
    \/ getAudioData
    \/ MutateSnapshot
    \/ AnalyzerReset
    \/ AnalyzerSetSmoothingFactor

SpecAnalyzer == InitAnalyzer /\ [][NextAnalyzer]_vars

\* every public method of the engine, on an engine configured with one scene
InitApp == InitWith({RainOnly}, MaxCtx, {DefaultVolume})

NextApp ==
    \/ init
    \/ InitResume
    \/ AppPlay
    \/ AppSwitchScene
    \/ AppStop
    \/ AppSetVolume
    \/ addScene
    \/ getAudioData
    \/ destroy
    \/ LoadDone
    \/ Fire
    \/ VolumeTick

SpecApp == InitApp /\ [][NextApp]_vars

\* init() called again and again, also while an earlier call is suspended
InitTwice == InitWith(EngineConfigs, MaxCtxInit, {DefaultVolume})

NextTwice ==
    \/ init
    \/ InitResume
    \/ LoadDone
    \/ Frame

SpecTwice == InitTwice /\ [][NextTwice]_vars

\* the three Scene Players the engine creates at init(), called directly while
\* their loads settle and their timeouts fire
InitPlayers == InitWith({DEFAULT_SCENES}, MaxCtx, {DefaultVolume})

NextPlayers ==
    \/ init
    \/ InitResume
    \/ LoadDone
    \/ StartPlayer
    \/ StopPlayer
    \/ DisposePlayer
    \/ Fire

SpecPlayers == InitPlayers /\ [][NextPlayers]_vars

\* one LoopPlayer, or the recording layer of one WindPlayer, driven directly:
\* start, stop and dispose at any instant of the grid or of an event

\* the buffers that decoded (their durations) and options.crossfadeDuration
LoopConfigs ==
    {[durations |-> <<10000, 10000, 10000>>, crossfadeDuration |-> RainCrossfade],
     [durations |-> <<3000, 10000>>, crossfadeDuration |-> 0],
     [durations |-> <<500, 500>>, crossfadeDuration |-> RainCrossfade],
     [durations |-> <<10000>>, crossfadeDuration |-> RainCrossfade]}

InitLoop ==
    /\ EngineNew({DEFAULT_SCENES}, MaxCtx, {DefaultVolume})
    /\ LoaderIdle
    /\ NoiseIdle
    /\ SynthIdle
    /\ clock = 0
    /\ sources = [s \in SourceIds |-> FreeSource]
    /\ pending = <<>>
    /\ loopHist = NoLoopHist
    /\ \/ /\ \E c \in LoopConfigs :
                 loopPlayer = LoadedLoopPlayer(c.durations, c.crossfadeDuration)
          /\ windLayer = LoadedWindLayer(0)
       \/ /\ loopPlayer = LoadedLoopPlayer(<<>>, 0)
          /\ \E n \in 1..3 : windLayer = LoadedWindLayer(n)
       \/ /\ loopPlayer = LoadedLoopPlayer(<<500, 500>>, RainCrossfade)
          /\ windLayer = LoadedWindLayer(2)

NextLoop ==
    \/ LoopPlayerStart
    \/ LoopPlayerStop
    \/ LoopPlayerDispose
    \/ LoopFire
    \/ Elapse
    \/ WindLayerStart
    \/ WindLayerStop
    \/ WindLayerCrossfade

SpecLoop == InitLoop /\ [][NextLoop]_vars

\* one SampleLoader: load, loadAll and getRandomVariant called in any order while
\* fetches are in flight
InitLoader ==
    /\ EngineNew({DEFAULT_SCENES}, MaxCtx, {DefaultVolume})
    /\ LoopIdle
    /\ WindIdle
    /\ NoiseIdle
    /\ SynthIdle
    /\ LoaderNew

NextLoader ==
    \/ SampleLoad
    \/ SampleLoadAll
    \/ FetchDone
    \/ SampleGetRandomVariant

SpecLoader == InitLoader /\ [][NextLoader]_vars

\* a SampleLoader that is also cleared while fetches are in flight
NextClear ==
    \/ SampleLoad
    \/ SampleLoadAll
    \/ FetchDone
    \/ SampleClear

SpecClear == InitLoader /\ [][NextClear]_vars

\* one noise buffer filled sample by sample
InitNoise ==
    /\ EngineNew({DEFAULT_SCENES}, MaxCtx, {DefaultVolume})
    /\ LoopIdle
    /\ WindIdle
    /\ LoaderIdle
    /\ SynthIdle
    /\ \E kind \in {"white", "pink", "brown"} : noise = NoiseBuffer(kind)

NextNoise ==
    \/ WhiteSample
    \/ PinkSample
    \/ BrownSample

SpecNoise == InitNoise /\ [][NextNoise]_vars

\* one synthesizer called directly, without a sample loader
InitSynth ==
    /\ EngineNew({DEFAULT_SCENES}, MaxCtx, {DefaultVolume})
    /\ LoopIdle
    /\ WindIdle
    /\ LoaderIdle
    /\ NoiseIdle
    /\ SynthNew(SynthKinds, {FALSE}, {NoCache})

NextSynth ==
    \/ SynthStartCall
    \/ SynthStopCall
    \/ SynthDisposeCall
    \/ SynthFire
    \/ SynthElapse

SpecSynth == InitSynth /\ [][NextSynth]_vars

\* a RainSynth or CafeSynth and the sample loader it may be given
InitSamples ==
    /\ EngineNew({DEFAULT_SCENES}, MaxCtx, {DefaultVolume})
    /\ LoopIdle
    /\ WindIdle
    /\ LoaderIdle
    /\ NoiseIdle
    /\ SynthNew({"rain", "cafe"}, BOOLEAN,
                {NoCache, [NoCache EXCEPT !["raindrop_2"] = 1, !["spoon_stir"] = 1]})

NextSamples ==
    \/ SynthStartCall
    \/ SynthStopCall
    \/ SynthSetSampleLoader
    \/ SynthSampleCached
    \/ SynthCacheCleared
    \/ SynthFire
    \/ SynthElapse

SpecSamples == InitSamples /\ [][NextSamples]_vars

\* ---- properties ----

\* AudioEngine.isSceneLoaded(s) in the current state
SceneLoaded(s) == players[s] # 0 /\ inst[players[s]].isLoaded

\* the playing flag of every Scene Player
PlayingFlags == [i \in InstIds |-> inst[i].isPlaying]

\* a useStay.switchScene request: called directly, or by togglePlay while paused
C1_SwitchRequest == last'.op = "switch" \/ (last'.op = "toggle" /\ ~hookPlaying)

\* C1: a switch request made through useStay while isSwitchingRef is set is turned
\* away, not queued: it leaves the engine's currentScene, isPlaying, currentPlayer and
\* every player's playing flag as they were and the lock set; and the transition that
\* holds the lock, once its scene has loaded, still ends with its own target scene
\* current and playing, although a request was turned away meanwhile.
C1_SecondSwitchRejected ==
    /\ [][(isSwitchingRef /\ C1_SwitchRequest) =>
              /\ currentScene' = currentScene
              /\ isPlaying' = isPlaying
              /\ currentPlayer' = currentPlayer
              /\ PlayingFlags' = PlayingFlags
              /\ isSwitchingRef']_vars
    /\ []((last.op \in {"playDone", "switchDone"} /\ rejected /\ SceneLoaded(last.s)) =>
              /\ currentScene = last.s
              /\ isPlaying
              /\ currentPlayer = players[last.s]
              /\ inst[currentPlayer].isPlaying
              /\ ~isSwitchingRef)

\* the first transition has completed on its target after a second request was rejected
C1_Witness ==
    /\ last.op \in {"playDone", "switchDone"}
    /\ rejected
    /\ currentScene = last.s
    /\ isPlaying
    /\ inst[currentPlayer].isPlaying

\* C2: in every reachable state each scene has at most one Scene Player instance
\* that has been created and not disposed.
C2_OneInstancePerScene ==
    \A s \in SceneIds :
        Cardinality({i \in InstIds : /\ inst[i].st # "free"
                                     /\ inst[i].scene = s
                                     /\ ~inst[i].disp}) <= 1

\* C3: a stop(fadeDuration) call made while the engine is playing, also one made
\* while an earlier stop() still awaits its fade, leaves currentScene, currentPlayer
\* and isPlaying set (the fade of fadeDuration > 0 cannot have elapsed within the
\* call).
C3_StopKeepsStateUntilFaded ==
    [][(last'.op = "stop" /\ isPlaying /\ currentPlayer # 0) =>
           /\ currentScene' = currentScene
           /\ currentPlayer' = currentPlayer
           /\ isPlaying']_vars

\* play(s) completes in this step for a scene that is loaded
C4_PlayCompletes(s) ==
    \/ last'.op = "play" /\ last'.s = s /\ isInitialized /\ SceneLoaded(s)
    \/ last'.op = "playDone" /\ last'.s = s /\ SceneLoaded(s)'

\* C4: when play(s) completes for a loaded scene, currentScene = s, isPlaying is
\* true, the current player is the scene's player and is in the playing state, and
\* the player that was current before, if it is another one, is not playing.
C4_PlayLeavesScenePlaying ==
    [][\A s \in SceneIds : C4_PlayCompletes(s) =>
           /\ currentScene' = s
           /\ isPlaying'
           /\ currentPlayer' # 0
           /\ inst'[currentPlayer'].scene = s
           /\ inst'[currentPlayer'].isPlaying
           /\ (currentPlayer # 0 /\ currentPlayer # currentPlayer'
                  => ~inst'[currentPlayer].isPlaying)]_vars

\* switchScene(s, f) reaches its body in this step: s is loaded and is not current
C5_SwitchRuns(s) ==
    \/ /\ last'.op = "switchScene" /\ last'.s = s
       /\ isInitialized /\ currentScene # s /\ SceneLoaded(s)
    \/ last'.op = "switchDone" /\ last'.s = s /\ SceneLoaded(s)'

\* the old player's timed fade-out is still pending
FadePending(T, p) ==
    \E j \in DOMAIN T : T[j].p = p /\ T[j].k \in {"fade", "synfade"} /\ T[j].dur > 0

\* C5: switchScene(s, f) to a loaded scene sets currentScene = s, currentPlayer =
\* the scene's player and isPlaying = true in the step in which it starts that
\* player; when s is not the current scene the player is in the playing state after
\* that step, while the fade-out of the player that was sounding is still pending.
C5_SwitchSetsStateAtOnce ==
    [][\A s \in SceneIds : C5_SwitchRuns(s) =>
           /\ currentScene' = s
           /\ currentPlayer' = players'[s]
           /\ isPlaying'
           /\ currentScene # s =>
                  /\ inst'[currentPlayer'].isPlaying
                  /\ (currentPlayer # 0 /\ inst[currentPlayer].isPlaying
                                        /\ inst[currentPlayer].src
                         => FadePending(timers', currentPlayer))]_vars

\* a switch has just set the new scene current while the old player still fades
C5_Witness ==
    /\ last.op = "switchScene"
    /\ currentScene = last.s
    /\ isPlaying
    /\ inst[currentPlayer].isPlaying
    /\ \E j \in DOMAIN timers :
           /\ timers[j].p # currentPlayer
           /\ timers[j].k = "fade" /\ timers[j].dur = FADE_DURATION
           /\ inst[timers[j].p].src

\* C6: switchScene("cafe", 3) while "rain" is playing: right after the call both
\* players have a live source and the rain player is not silent; when the 3 s have
\* elapsed (no other call came in between) every rain player is silent with its
\* source stopped, and the cafe player is current, playing, with a live source at
\* its full gain.
C6_CrossfadeRainToCafe ==
    /\ (last.op = "switchScene" /\ \E j \in DOMAIN timers : timers[j].tag) =>
           /\ currentPlayer # 0 /\ inst[currentPlayer].src
           /\ \A j \in DOMAIN timers : timers[j].tag =>
                  inst[timers[j].p].src /\ inst[timers[j].p].gain # "zero"
    /\ last.op = "watchedFade" =>
           /\ \A i \in InstIds : inst[i].scene = "rain" =>
                  ~inst[i].isPlaying /\ ~inst[i].src /\ inst[i].gain = "zero"
           /\ currentScene = "cafe" /\ isPlaying /\ currentPlayer # 0
           /\ inst[currentPlayer].scene = "cafe"
           /\ inst[currentPlayer].isPlaying
           /\ inst[currentPlayer].src
           /\ inst[currentPlayer].gain = "full"

\* play(s) / switchScene(s) finds the scene without a configuration or without a
\* usable player
C7_Unusable(s) ==
    \/ /\ last'.op \in {"play", "switchScene"} /\ last'.s = s
       /\ ~SceneLoaded(s)
       /\ (scenes[s] \in {"none", "nofiles"} \/ players[s] # 0)
    \/ last'.op \in {"playDone", "switchDone"} /\ last'.s = s /\ ~SceneLoaded(s)'

\* C7: play(s) or switchScene(s) on a scene that has no configuration, or whose
\* load settles without a usable player, changes nothing: currentScene, isPlaying,
\* currentPlayer and the current player itself are after the call as before it.
C7_UnusableSceneIsNoOp ==
    [][\A s \in SceneIds : C7_Unusable(s) =>
           /\ currentScene' = currentScene
           /\ isPlaying' = isPlaying
           /\ currentPlayer' = currentPlayer
           /\ (currentPlayer # 0 => inst'[currentPlayer] = inst[currentPlayer])]_vars

\* a play() gave up on a scene whose load was useless while another scene sounds on
C7_Witness ==
    /\ last.op = "playDone"
    /\ ~SceneLoaded(last.s)
    /\ currentScene # last.s
    /\ isPlaying
    /\ currentPlayer # 0
    /\ inst[currentPlayer].isPlaying

C9_DestroyStopsEveryPlayer ==
    last.op = "destroy" =>
        /\ \A i \in InstIds : ~inst[i].isPlaying
        /\ \A j \in DOMAIN timers : timers[j].k # "next"

\* C10: from destroy() on, until init() is called again, every engine field is as
\* destroy() leaves it (audioContext, masterGain, analyzer, currentPlayer and
\* currentScene null, players empty, isInitialized and isPlaying false): a second
\* destroy() changes none of them, and no load, play(), stop() or init() that was
\* in flight sets one of them again.
C10_DestroyedStaysTornDown ==
    destroyed =>
        /\ audioContext = 0
        /\ masterGain = 0
        /\ analyzer = 0
        /\ currentPlayer = 0
        /\ currentScene = NoScene
        /\ players = [s \in SceneIds |-> 0]
        /\ ~isInitialized
        /\ ~isPlaying

\* a play() that was awaiting its load has resumed after destroy()
C10_Witness ==
    /\ destroyed
    /\ last.op = "playDone"
    /\ calls >= 2

\* C11: no task lets an exception out of play, switchScene, stop or setVolume,
\* whatever the state of the engine and whatever the scene; and an init() that got
\* its context does not fail (init() rejects only when new AudioContext() throws).
C11_OnlyDeniedInitFails ==
    /\ ~threw
    /\ last.op # "initFailed"

\* the call made in this step is redundant: play(s) with s current and playing,
\* switchScene(s) with s current, stop() with the engine not playing
C12_Redundant ==
    \/ last'.op = "play" /\ last'.s = currentScene /\ isPlaying
    \/ last'.op = "switchScene" /\ last'.s = currentScene
    \/ last'.op = "stop" /\ ~isPlaying

\* C12: a redundant call leaves currentScene, isPlaying, currentPlayer, every Scene
\* Player (its playing flag, its source, its gain) and every pending timeout and
\* ramp as they were.
C12_RedundantCallChangesNothing ==
    [][C12_Redundant =>
           /\ currentScene' = currentScene
           /\ isPlaying' = isPlaying
           /\ currentPlayer' = currentPlayer
           /\ players' = players
           /\ inst' = inst
           /\ Untag(timers') = Untag(timers)]_vars

\* play(s) has just returned for a scene that was playing: its player, faded in
\* long ago, has not been started again
C12_Witness ==
    /\ last.op = "play"
    /\ currentScene = last.s
    /\ isPlaying
    /\ currentPlayer # 0
    /\ inst[currentPlayer].isPlaying
    /\ inst[currentPlayer].src
    /\ inst[currentPlayer].gain = "full"

\* C13: setVolume(value) on an initialized engine writes min(1, max(0, value)) as
\* the ramp target of the master gain; the master gain's value and target are
\* always within [0, 1]; and setVolume while there is no master gain or no context
\* (before init(), after destroy()) changes nothing.
C13_VolumeClamped ==
    /\ [][last'.op = "setVolume" =>
              IF masterGain # 0 /\ audioContext # 0
              THEN volume'.target = (IF arg' < 0 THEN 0 ELSE IF arg' > Unit THEN Unit ELSE arg')
              ELSE /\ volume' = volume
                   /\ UNCHANGED <<engineVars, inst, timers, inits, loops, analysis>>]_vars
    /\ [](/\ 0 <= volume.value /\ volume.value <= Unit
          /\ 0 <= volume.target /\ volume.target <= Unit)

\* setVolume(1.5) has written 1 and the gain has arrived there; setVolume(-0.5)
\* comes next
C13_Witness ==
    /\ last.op = "setVolume"
    /\ arg < 0
    /\ volume.target = 0
    /\ volume.value = Unit
    /\ defaultVolume < Unit

\* C14: a setVolume call made while a ramp of the master gain is in progress leaves
\* the gain's value at that instant as it is and starts the new ramp there (not at
\* the earlier ramp's start or target); while time passes the value only moves
\* towards the target, never beyond it; and when the ramp time has passed the value
\* is the target.
C14_RampFromCurrentValue ==
    /\ [][(last'.op = "setVolume" /\ masterGain # 0 /\ volume.left > 0) =>
              /\ volume'.value = volume.value
              /\ volume'.left = DefaultRampTime]_vars
    /\ [][last'.op = "volumeTick" =>
              /\ volume'.target = volume.target
              /\ volume'.left = Max(0, volume.left - Tick)
              /\ \/ volume.value <= volume'.value /\ volume'.value <= volume.target
                 \/ volume.target <= volume'.value /\ volume'.value <= volume.value]_vars
    /\ [](volume.left = 0 => volume.value = volume.target)

\* setVolume(0.8) has come half way through the ramp of setVolume(0.2) from 0.7:
\* the new ramp starts at 0.45
C14_Witness ==
    /\ last.op = "setVolume"
    /\ volume.target = 80
    /\ volume.value = 45
    /\ volume.left = DefaultRampTime

\* C15: getAudioData() hands out zeros when there is no analyzer and the smoothed
\* values otherwise, in an object of its own: no update(), reset() or other task
\* changes a snapshot that was handed out, and writing into the snapshot changes
\* nothing in the analyzer (hence nothing a later getAudioData() returns).
C15_SnapshotIsACopy ==
    /\ [][last'.op = "getAudioData" =>
              snapshot'.data = (IF analyzer = 0 THEN ZeroData ELSE analysis.smoothedData)]_vars
    /\ [][last'.op \notin {"getAudioData", "mutate"} => snapshot'.data = snapshot.data]_vars
    /\ [][last'.op = "mutate" => analysis' = analysis]_vars

\* a snapshot of a sounding scene is held while a later update moves the analyzer on
C15_Witness ==
    /\ last.op = "frame"
    /\ updates = 1
    /\ snapshot.data.volume > 0
    /\ snapshot.data # analysis.smoothedData

\* C16: whatever bytes the analyser node hands out and whatever is passed to
\* setSmoothingFactor, after any update(), reset() and setSmoothingFactor() calls
\* lowFrequency, midFrequency, highFrequency and volume are within [0, 1].
C16_SnapshotInRange ==
    LET d == analysis.smoothedData
    IN  /\ 0 <= d.lowFrequency /\ d.lowFrequency <= Unit
        /\ 0 <= d.midFrequency /\ d.midFrequency <= Unit
        /\ 0 <= d.highFrequency /\ d.highFrequency <= Unit
        /\ 0 <= d.volume /\ d.volume <= Unit

\* after setSmoothingFactor(1.5) an update on a full-scale signal: every component
\* is at the top of the range
C16_Witness ==
    /\ last.op = "frame"
    /\ updates = 1
    /\ analysis.smoothingFactor = Unit
    /\ analysis.smoothedData.lowFrequency = Unit
    /\ analysis.smoothedData.volume = Unit

\* C17: from the completion of init() until destroy(), every render tick makes
\* exactly one analyzer.update(), whether or not a scene is playing.
C17_OneUpdatePerTick ==
    last.op = "frame" => updates = 1

\* C18: as long as no init() has got a context, whatever play, switchScene, stop,
\* setVolume, addScene, getAudioData and destroy calls were made, audioContext,
\* masterGain and analyzer are null, no Scene Player exists (no load was started,
\* none was started playing), no timeout is pending and no analysis loop runs.
C18_NoContextWithoutInit ==
    nCtx = 0 =>
        /\ audioContext = 0
        /\ masterGain = 0
        /\ analyzer = 0
        /\ ~isInitialized
        /\ ~isPlaying
        /\ currentPlayer = 0
        /\ players = [s \in SceneIds |-> 0]
        /\ \A i \in InstIds : inst[i] = FreeInst
        /\ timers = <<>>
        /\ loops = 0

\* three calls, among them a play() of a configured scene, on an engine that was
\* never initialized
C18_Witness ==
    /\ nCtx = 0
    /\ calls = MaxCalls
    /\ last.op \in {"play", "switchScene"}
    /\ scenes[last.s] = "loop"

\* C19: whatever init() calls are made (no destroy() between them), also a second
\* one while the first awaits resume(), at most one context is created, at most one
\* analysis loop runs (init() creates the master gain and the analyzer in the run
\* that starts the loop), and every scene has at most one Scene Player instance (it
\* was preloaded once).
C19_InitOnce ==
    /\ nCtx <= 1
    /\ loops <= 1
    /\ \A s \in SceneIds :
           Cardinality({i \in InstIds : inst[i].st # "free" /\ inst[i].scene = s}) <= 1

C21_NoConsecutiveRepeat ==
    /\ (Len(loopPlayer.buffers) > 1 /\ loopHist.picks >= 2
            => loopHist.cur # loopHist.prev)
    /\ (windLayer.recordingBuffers > 1 /\ windLayer.picks >= 2
            => windLayer.cur # windLayer.prev)

\* a LoopPlayer with two buffers has picked again in the start() that followed a
\* stop(), and a recording layer with two recordings has picked again at its
\* crossfade
C21_Witness ==
    /\ Len(loopPlayer.buffers) = 2 /\ loopHist.picks >= 2 /\ loopHist.by = "start"
    /\ windLayer.recordingBuffers = 2 /\ windLayer.picks >= 2
    /\ windLayer.by = "crossfade"


\* C22: load(name) issues a fetch only for a name that is neither in the cache nor
\* in the table of loads in flight, so a name never has two fetches in flight and a
\* cached name has none; when a fetch ends, every call that was waiting for it ends
\* with its one result, and a cached buffer is never replaced.
C22_InFlight(n) == {id \in FetchIds : fetches[id] = n}

C22_OneFetchPerName ==
    /\ [](\A n \in SampleNames :
            /\ Cardinality(C22_InFlight(n)) <= 1
            /\ (Has(sampleBuffers, n) => C22_InFlight(n) = {}))
    /\ [][/\ \A n \in loaderHist'.issued :
                ~Has(sampleBuffers, n) /\ ~Has(sampleLoading, n)
          /\ \A n \in SampleNames :
                Has(sampleBuffers, n) => sampleBuffers'[n] = sampleBuffers[n]
          /\ (loaderHist'.op \in {"fetched", "fetchFailed"} =>
                LET n == loaderHist'.name
                    woken == {w.call : w \in {x \in waiting : x.name = n}}
                IN  /\ {s.call : s \in loaderHist'.settled} = woken
                    /\ \A w \in waiting' : w.name # n
                    /\ \A s \in loaderHist'.settled :
                          IF loaderHist'.op = "fetched"
                          THEN s.outcome = "ok" /\ s.buffer = sampleBuffers'[n]
                                                /\ s.buffer # 0
                          ELSE s.outcome = "rejected")]_vars

C22_Witness ==
    /\ loaderHist.op = "fetched"
    /\ Cardinality(loaderHist.settled) >= 2
    /\ loaderHist.fetched = 1
    /\ \A s \in loaderHist.settled : s.outcome = "ok"

\* C23: when the fetch of a name fails, the name is afterwards neither cached nor
\* in flight, the calls that end rejected are the ones that were waiting for that
\* fetch, the cache and the loads of other names are as before, a loadAll() whose
\* last load this was resolves with the names that are cached, and a later load of
\* the name issues a fresh fetch.
C23_FailureIsLocal ==
    [][/\ (loaderHist'.op = "fetchFailed" =>
            LET n == loaderHist'.name
                woken == {w \in waiting : w.name = n}
            IN  /\ ~Has(sampleBuffers', n)
                /\ ~Has(sampleLoading', n)
                /\ sampleBuffers' = sampleBuffers
                /\ \A m \in SampleNames \ {n} : sampleLoading'[m] = sampleLoading[m]
                /\ waiting' = waiting \ woken
                /\ {s.call : s \in loaderHist'.settled} = {w.call : w \in woken}
                /\ \A s \in loaderHist'.settled : s.outcome = "rejected"
                /\ \A g \in {w.group : w \in woken} \ {0} :
                      (\A w \in waiting' : w.group # g) =>
                          \E r \in loaderHist'.resolved :
                              /\ r.call = g
                              /\ r.buffers = {m \in SampleNames : Has(sampleBuffers, m)})
       /\ (/\ loaderHist'.op = "load"
           /\ loaderHist'.name \in loaderHist.failed
           /\ ~Has(sampleBuffers, loaderHist'.name)
           /\ ~Has(sampleLoading, loaderHist'.name)
           => loaderHist'.name \in loaderHist'.issued)]_vars

C23_Witness ==
    /\ loaderHist.op = "fetchFailed"
    /\ \E r \in loaderHist.resolved : r.buffers # {}
    /\ \E n \in loaderHist.failed : Has(sampleBuffers, n)

\* C24: getRandomVariant(baseName, maxVariants) returns a cached name written
\* baseName_i with 1 <= i <= maxVariants, and null exactly when the cache holds no
\* such name.
C24_Fits ==
    {n \in SampleNames : /\ Has(sampleBuffers, n)
                         /\ BaseOf(n) = loaderHist.baseName
                         /\ NumberOf(n) >= 1
                         /\ NumberOf(n) <= loaderHist.maxVariants}

C24_VariantIsCached ==
    loaderHist.op = "variant" =>
        /\ (loaderHist.name = "null" <=> C24_Fits = {})
        /\ (loaderHist.name # "null" => loaderHist.name \in C24_Fits)

C24_Witness ==
    /\ loaderHist.op = "variant"
    /\ loaderHist.name = "drop_3"
    /\ loaderHist.maxVariants = 3
    /\ Has(sampleBuffers, "drop_1")

\* C25: every sample written by createWhiteNoise, createPinkNoise and
\* createBrownNoise lies within [-1, 1].
C25_SamplesInRange ==
    noise.filled > 0 => noise.sample >= 0 - NoiseUnit /\ noise.sample <= NoiseUnit

\* C26: scene "rain" with three 10 s tracks and a 3 s crossfade, started once and
\* left alone: track A fades in from 0 to 1 over 1.5 s; the crossfade to a
\* different track begins crossfadeAt after A started; A is silent once the
\* crossfade is over and is stopped and disconnected before goneBy.
C26_Rain ==
    /\ loopPlayer.buffers = <<10000, 10000, 10000>>
    /\ loopPlayer.crossfadeDuration = RainCrossfade
    /\ loopHist.calls = 1
    /\ loopHist.made >= 1

C26_Scenario(crossfadeAt, goneBy) ==
    C26_Rain =>
        \A a \in SourceIds : sources[a].gen = 1 =>
            LET A == sources[a]
                t == clock - A.start
                gain == ValueAt(A.gain, clock)
            IN  /\ A.st = "playing"
                /\ (t = 0 => gain = 0)
                /\ (t > 0 /\ t < DefaultFadeIn => gain > 0 /\ gain < Unit)
                /\ (t >= DefaultFadeIn /\ loopHist.made = 1 => gain = Unit)
                /\ (loopHist.made = 1 => t <= crossfadeAt)
                /\ \A b \in SourceIds : sources[b].gen = 2 =>
                      /\ sources[b].start = A.start + crossfadeAt
                      /\ sources[b].index # A.index
                /\ (t >= crossfadeAt + RainCrossfade => gain = 0)
                /\ t < goneBy

\* as the scenario is written: the crossfade begins at 8.5 s
C26_CrossfadeAtEightAndAHalf == C26_Scenario(8500, 11500)

\* C26 as the player runs it: the crossfade begins at 10 s - 3 s = 7.0 s
C26_CrossfadeAtSeven == C26_Scenario(7000, 11500)

C26_Witness ==
    /\ C26_Rain
    /\ loopHist.made = 2
    /\ loopHist.op = "cleanup"
    /\ \A s \in SourceIds : sources[s].gen # 1
    /\ \E s \in SourceIds : sources[s].gen = 2 /\ Sounding(sources[s], clock)

\* C27: in a playing LoopPlayer the successor of a track starts crossfadeDuration
\* before the track's natural end, the gain of the outgoing track is 0 at its
\* natural end, and at every instant some track is sounding.
C27_Successor(a, b) ==
    /\ sources[b].start = sources[a].end - loopPlayer.crossfadeDuration
    /\ ValueAt(sources[a].gain, sources[a].end) = 0

C27_GaplessCrossfade ==
    /\ (loopHist.op = "next" /\ loopHist.from # 0 =>
          \A a, b \in SourceIds :
              sources[a].gen = loopHist.from /\ sources[b].gen = loopHist.made
                  => C27_Successor(a, b))
    /\ (loopPlayer.isPlaying /\ loopPlayer.currentSource # 0 /\ Due(pending, clock) = {}
          => \E s \in SourceIds : Sounding(sources[s], clock))

\* C28: while a WindPlayer is playing, its synthesized bed runs: the WindSynth is
\* started with its noise source alive, and no fade of its output to zero is under
\* way.
C28_BedRuns ==
    \A p \in InstIds :
        inst[p].kind = "wind" /\ inst[p].isPlaying /\ ~inst[p].disp =>
            /\ inst[p].syn
            /\ \A i \in DOMAIN timers : ~(timers[i].p = p /\ timers[i].k = "synfade")

\* C29: a player that is not playing has no timeout of its own pending; the step
\* in which a player leaves the playing state leaves none pending and stops no
\* source; and no step gives a source to a player that is and stays stopped.
C29_NextPending(T, p) == \E i \in DOMAIN T : T[i].p = p /\ T[i].k = "next"

C29_StopCancelsTimer ==
    /\ [](\A p \in InstIds : C29_NextPending(timers, p) => inst[p].isPlaying)
    /\ [][\A p \in InstIds : inst[p].st # "free" /\ inst'[p].st # "free" =>
            /\ (inst[p].isPlaying /\ ~inst'[p].isPlaying =>
                  ~C29_NextPending(timers', p) /\ inst'[p].src = inst[p].src)
            /\ (~inst[p].isPlaying /\ ~inst'[p].isPlaying =>
                  (inst'[p].src => inst[p].src))]_vars

C29_Witness ==
    /\ last = Last("playerStop", "cafe")
    /\ \E p \in InstIds :
          /\ inst[p].kind = "cafe" /\ inst[p].good > 0
          /\ ~inst[p].isPlaying /\ inst[p].src
          /\ \E i \in DOMAIN timers : timers[i].p = p /\ timers[i].k = "fade"
    /\ \E p \in InstIds : inst[p].kind = "loop" /\ inst[p].isPlaying
                          /\ C29_NextPending(timers, p)

\* C30: start() on a playing instance and stop() on an instance that is not
\* playing change no instance and create no timeout or ramp; start() on an instance
\* that is not loaded does not make it playing.
C30_NoOps ==
    [][\A p \in InstIds : p = arg' =>
          /\ (last'.op = "playerStart" /\ inst[p].isPlaying =>
                inst' = inst /\ timers' = timers)
          /\ (last'.op = "playerStop" /\ ~inst[p].isPlaying =>
                inst' = inst /\ timers' = timers)
          /\ (last'.op = "playerStart" /\ ~inst[p].isLoaded => ~inst'[p].isPlaying)]_vars

C30_Witness ==
    /\ last = Last("playerStart", "rain")
    /\ \E i \in DOMAIN timers :
          /\ timers[i].k = "ramp" /\ timers[i].dur = RainCrossfade
          /\ inst[timers[i].p].kind = "loop" /\ inst[timers[i].p].isPlaying

\* C34: in every state of the engine isPlaying is true exactly when currentScene
\* is set and exactly when currentPlayer is set: play, switchScene, stop and
\* destroy, and the continuations of those that await, write the three fields in
\* one task.
C34_FieldsAgree ==
    /\ isPlaying <=> currentScene # NoScene
    /\ isPlaying <=> currentPlayer # 0

\* the fade of a stop() has ended and cleared the three fields after a play() of
\* another scene had set them during the fade
C34_Witness ==
    /\ last.op = "fade"
    /\ ~isPlaying /\ currentScene = NoScene /\ currentPlayer = 0
    /\ \E p \in InstIds : inst[p].isPlaying /\ inst[p].scene # last.s

\* C35: whenever currentScene is set, currentPlayer is the instance the players
\* map holds under that scene.
C35_CurrentIsRegistered ==
    currentScene # NoScene => currentPlayer = players[currentScene]

\* C36: when the engine reports that it is not playing (isPlaying false,
\* currentPlayer null) no Scene Player is in the playing state, and in every state
\* a Scene Player that is in the playing state is the current one.
C36_NoUntrackedPlayer ==
    /\ (~isPlaying /\ currentPlayer = 0 => \A p \in InstIds : ~inst[p].isPlaying)
    /\ \A p \in InstIds : inst[p].isPlaying => p = currentPlayer

\* no useStay action is under way: the lock is free and no hook call awaits
\* init(), a load or the fade of a stop
C39_Settled ==
    /\ ~isSwitchingRef /\ ~destroyed
    /\ inits = {}
    /\ \A p \in InstIds : ~(inst[p].st = "loading" /\ inst[p].wh)
    /\ \A i \in DOMAIN timers : ~timers[i].h

\* C39: once the useStay actions have settled, a hook that reports playing agrees
\* with the engine: the engine is playing and its current scene is the hook's.
C39_HookAgreesWithEngine ==
    (C39_Settled /\ hookPlaying) => (isPlaying /\ currentScene = hookScene)

\* the instance holds the buffer its looping source is made from
C37_HasBuffer(r) == IF r.kind = "cafe" THEN HasAmbience(r) ELSE Buffers(r) > 0

\* C37: a player that is in the playing state and holds a buffer has a live
\* current source: the continuation of an earlier stop() does not stop the source
\* a later start() created.
C37_PlayingHasSource ==
    \A p \in InstIds :
        inst[p].isPlaying /\ C37_HasBuffer(inst[p]) => inst[p].src

\* both maps of the loader are empty
C40_Empty(B, G) == \A n \in SampleNames : ~Has(B, n) /\ ~Has(G, n)

\* C40: a name never has two fetches in flight, also across clear(); while the
\* cache and the table of loads in flight are empty they stay empty in every step
\* that is not a load() or loadAll() call; and a fetch that ends does not remove
\* the entry another fetch of the same name has in the table of loads in flight.
C40_ClearIsFinal ==
    /\ [](\A n \in SampleNames : Cardinality(C22_InFlight(n)) <= 1)
    /\ [][/\ (C40_Empty(sampleBuffers, sampleLoading)
               /\ loaderHist'.op \notin {"load", "loadAll"}
                  => C40_Empty(sampleBuffers', sampleLoading'))
          /\ \A id \in FetchIds, n \in SampleNames :
                (fetches[id] = n /\ fetches'[id] = NoFetch
                 /\ Has(sampleLoading, n) /\ sampleLoading[n] # id)
                    => sampleLoading'[n] = sampleLoading[n]]_vars

\* the self-rescheduling timers (drop, clink, gust) pending for the synthesizer
C38_Chains == {i \in DOMAIN synth.tm : synth.tm[i].k = "event"}

\* C38: the synthesizer has at most one pending self-rescheduling timer at any
\* time, under any sequence of start(), stop(), dispose() and timer firings: a
\* restart never leaves two chains running.
C38_OneChain == Cardinality(C38_Chains) <= 1

\* C31: the step of dispose() leaves no transient-event timer of the synthesizer
\* pending, whatever state it was called in, and once dispose() has been called no
\* timer firing produces a drop, clink or gust.
C31_DisposeCancels ==
    /\ [][synth'.h.op = "dispose"
            => \A i \in DOMAIN synth'.tm : synth'.tm[i].k # "event"]_vars
    /\ [](synth.h.ended /\ synth.h.op = "event" => synth.h.shots = 0)

\* C33: the continuation of stop(fade) runs no earlier than the fade time after
\* the call, and when it disposes the noise source and clears isPlaying the
\* fade-out ramp has brought the output gain to zero.
C33_DisposedAtZero ==
    synth.h.op = "faded"
        => /\ synth.h.elapsed >= synth.h.dur
           /\ synth.h.cut => synth.h.level = 0

\* the step was a transient firing: generateDrop / generateClink ran past its guard,
\* from its timeout or, for the first drop, from a start() that ran
C32_Fired ==
    \/ synth.h.op = "event" /\ synth.s.isPlaying
    \/ synth.h.op = "start" /\ synth.h.probed /\ synth.s.kind = "rain"

\* the loader is set and holds one of the names the synthesizer expects
C32_Available ==
    synth.s.sampleLoader /\ \E n \in ExpectedSamples(synth.s.kind) : Has(synth.cache, n)

\* every firing produces exactly one one-shot, a sample only under the name of an
\* expected sample that is in the cache at that moment
C32_OneShot ==
    /\ C32_Fired => synth.h.shots = 1 /\ synth.h.shot \in {"sample", "synth"}
    /\ synth.h.shot = "sample"
           => /\ synth.h.name \in ExpectedSamples(synth.s.kind)
              /\ Has(synth.cache, synth.h.name)
              /\ synth.s.sampleLoader

\* C32 as amended: every transient firing of RainSynth and CafeSynth produces
\* exactly one one-shot; a sample is replayed only if the last probe set useSamples
\* and an expected name is in the cache at that moment, otherwise the one-shot is
\* synthesized; and the probe, run by every start() that starts the synthesizer and
\* by every setSampleLoader(), sets useSamples exactly when a loader is set that
\* holds an expected name.
C32_DecidedByLastProbe ==
    /\ C32_OneShot
    /\ synth.h.shot = "sample" => synth.s.useSamples
    /\ C32_Fired /\ ~(synth.s.useSamples /\ C32_Available) => synth.h.shot = "synth"
    /\ synth.h.probed => (synth.s.useSamples <=> C32_Available)

\* a firing replays a sample although the probe of the last start() found none:
\* setSampleLoader() probed again since
C32_Witness ==
    /\ synth.h.op = "event"
    /\ synth.h.shot = "sample"
    /\ ~synth.h.atStart

\* C32: every transient firing of RainSynth and CafeSynth produces exactly one
\* one-shot; a sample is replayed only if an expected name is in the cache at that
\* moment; with no loader, with no matching sample found by the probe at start(),
\* or with the samples removed since, the one-shot is synthesized; whether samples
\* are used is what the probe of the last start() decided.
C32_DecidedAtStart ==
    /\ C32_OneShot
    /\ C32_Fired /\ ~(synth.h.atStart /\ C32_Available) => synth.h.shot = "synth"
    /\ synth.s.isPlaying => (synth.s.useSamples <=> synth.h.atStart)

====
